---------------------------- MODULE Spec2Model ----------------------------
(***************************************************************************)
(* A model of src/data_processing/extract_title.py: the line classifier    *)
(* (parse_subtitle_line, DIVISION_PATTERN, compile_heading_patterns), the  *)
(* hierarchy builder build_title_structure with its four open-context      *)
(* slots and cascading finalize_* closures, and clean_title.               *)
(*                                                                         *)
(* Text.  A character is a one-character string.  A word is a non-empty    *)
(* sequence of characters holding no whitespace.  A string is a sequence   *)
(* of words, read as the words joined by single spaces; <<>> is "".  A raw *)
(* line of the input stream is a record [is_none, indent, words]: None     *)
(* (the blank marker of iter_lines_with_pages), or `indent` blanks         *)
(* followed by the words (iter_lines_with_pages has already removed the    *)
(* trailing whitespace, and never yields a line without words).            *)
(*                                                                         *)
(* Objects.  Every Subtitle, Division, Chapter and Section built is a      *)
(* record of `heap`; a reference to it is its index, and 0 is None.        *)
(*                                                                         *)
(* Input.  Spec, SpecProse, SpecDup and SpecOrder draw each stream element *)
(* when the loop reads it (`pages` and `lines` stay empty).  SpecStream    *)
(* draws the page texts, and SpecNesting a stream, before the loop         *)
(* starts: `lines` is then the whole stream and `consumed` the position in *)
(* it.  SpecMain starts before the PDF is read: `reader` is the text of    *)
(* its pages, and `pages` and `lines` follow from it; in every other       *)
(* specification `reader` and `output` stay empty.                         *)
(* SpecCitation is one call of                                             *)
(* build_full_citation of src/data_processing/build_ground_truth.py, which *)
(* reads the citations of the file written; a citation is a sequence of    *)
(* characters, " " among them, or absent.                                  *)
(***************************************************************************)
EXTENDS Integers, Sequences, FiniteSets, TLC

VARIABLES
    title_number,       \* the title number the parse is configured with
    heap,               \* every node object created so far, by reference
    current_subtitle,   \* the four open-context slots (a reference or 0)
    current_division,
    current_chapter,
    current_section,
    preface_lines,      \* title.preface_lines
    subtitles,          \* title.subtitles (references)
    page,               \* page number of the last element consumed
    consumed,           \* number of stream elements consumed
    inp,                \* the stream element the last loop iteration read
    pc,                 \* position in build_title_structure
    pages,              \* main: the (page_number, text) pairs of extract_pages
    lines,              \* main: line_iter, as the list of what it yields
    reader,             \* main: reader.pages, as the text of each page
    output,             \* the files written by output_path.write_text
    section_citation,   \* build_full_citation: its parameter
    full_citation       \* build_full_citation: what it returned

vars == <<title_number, heap, current_subtitle, current_division, current_chapter,
          current_section, preface_lines, subtitles, page, consumed, inp, pc,
          pages, lines, reader, output, section_citation, full_citation>>

---------------------------------------------------------------------------
(* Bounds of the model *)

MaxLines == 4
MaxProseLines == 3
MaxDupLines == 5
MaxTextLines == 3
MaxPlainLines == 2
MaxPage == 2
MaxPdfPages == 3
MaxCallLines == 2
MaxPad == 2

---------------------------------------------------------------------------
(* Characters *)

UPPER == <<"A","B","C","D","E","F","G","H","I","J","K","L","M",
           "N","O","P","Q","R","S","T","U","V","W","X","Y","Z">>
LOWER == <<"a","b","c","d","e","f","g","h","i","j","k","l","m",
           "n","o","p","q","r","s","t","u","v","w","x","y","z">>
DIGITS == <<"0","1","2","3","4","5","6","7","8","9">>

Range(s) == {s[i] : i \in DOMAIN s}

isupper(c) == c \in Range(UPPER)
islower(c) == c \in Range(LOWER)
isdigit(c) == c \in Range(DIGITS)
isalnum(c) == isupper(c) \/ islower(c) \/ isdigit(c)
\* \w of the re module (ASCII part)
isword(c) == isalnum(c) \/ c = "_"

lower_char(c) ==
    IF isupper(c) THEN LOWER[CHOOSE i \in DOMAIN UPPER : UPPER[i] = c] ELSE c
upper_char(c) ==
    IF islower(c) THEN UPPER[CHOOSE i \in DOMAIN LOWER : LOWER[i] = c] ELSE c

\* str.lower / str.upper on one word and on a string
lower_word(w) == [i \in DOMAIN w |-> lower_char(w[i])]
upper_word(w) == [i \in DOMAIN w |-> upper_char(w[i])]
lower(s) == [i \in DOMAIN s |-> lower_word(s[i])]

\* str.startswith on character sequences
startswith(w, prefix) ==
    /\ Len(w) >= Len(prefix)
    /\ SubSeq(w, 1, Len(prefix)) = prefix

\* the words of s from the k-th on
Rest(s, k) == SubSeq(s, k, Len(s))

\* str(n) for n >= 0
RECURSIVE str(_)
str(n) == IF n < 10 THEN <<DIGITS[n + 1]>>
          ELSE str(n \div 10) \o <<DIGITS[(n % 10) + 1]>>

\* w.split("."), empty pieces kept
RECURSIVE split_dots(_)
split_dots(w) ==
    IF \A i \in DOMAIN w : w[i] # "."
    THEN <<w>>
    ELSE LET k == CHOOSE i \in DOMAIN w :
                      w[i] = "." /\ \A j \in 1..(i - 1) : w[j] # "."
         IN  <<SubSeq(w, 1, k - 1)>> \o split_dots(SubSeq(w, k + 1, Len(w)))

\* [0-9A-Za-z]+
alnum_plus(w) == Len(w) >= 1 /\ \A i \in DOMAIN w : isalnum(w[i])


---------------------------------------------------------------------------
(* Words and lines used as the input alphabet *)

wSubtitle == <<"S","u","b","t","i","t","l","e">>
wDivision == <<"D","i","v","i","s","i","o","n">>
wChapter  == <<"C","h","a","p","t","e","r">>
wchapter  == <<"c","h","a","p","t","e","r">>
wSections == <<"S","e","c","t","i","o","n","s",":">>
wI        == <<"I">>
wII       == <<"I","I">>
wOne      == <<"1">>
wCodes    == <<"C","o","d","e","s">>
wGeneral  == <<"G","e","n","e","r","a","l">>
wDefs     == <<"D","e","f","s">>
wScope    == <<"S","c","o","p","e",".">>
wLand     == <<"L","a","n","d">>
wUse      == <<"U","s","e">>
wof       == <<"o","f">>
w23_42     == <<"2","3",".","4","2">>
w23_50     == <<"2","3",".","5","0">>
w23_42_010 == <<"2","3",".","4","2",".","0","1","0">>
w23_42_020 == <<"2","3",".","4","2",".","0","2","0">>
w22_42_010 == <<"2","2",".","4","2",".","0","1","0">>
w22_10     == <<"2","2",".","1","0">>
wuse_hyphen      == <<"u","s","e","-">>
w23_12           == <<"2","3","-","1","2">>
w3_12            == <<"3","-","1","2">>
w23_12_5_Seattle == <<"2","3","-","1","2",".","5","(","S","e","a","t","t","l","e">>
wSeattle         == <<"(","S","e","a","t","t","l","e">>
w9_23            == <<"9","-","2","3",")">>

Raw(indent, words) == [is_none |-> FALSE, indent |-> indent, words |-> words]
None == [is_none |-> TRUE, indent |-> 0, words |-> <<>>]

\* An Optional[str] of build_ground_truth.py: None, or the characters
NoCitation == [is_none |-> TRUE, chars |-> <<>>]
Citation(chars) == [is_none |-> FALSE, chars |-> chars]

\* the lower-case literals the code compares against
sections_colon == <<<<"s","e","c","t","i","o","n","s",":">>>>
subtitle_lc    == <<"s","u","b","t","i","t","l","e">>
division_lc    == <<"d","i","v","i","s","i","o","n">>
chapter_lc     == <<"c","h","a","p","t","e","r">>

\* Documents whose heading lines are well formed: every kind of heading,
\* with and without an inline title, blank lines and text
RawLines ==
    { None,
      Raw(0, <<wSubtitle, wI, wCodes>>),       \* Subtitle I Codes
      Raw(0, <<wSubtitle, wII>>),              \* Subtitle II
      Raw(0, <<wDivision, wOne, wGeneral>>),   \* Division 1 General
      Raw(0, <<wChapter, w23_42, wDefs>>),     \* Chapter 23.42 Defs
      Raw(0, <<wChapter, w23_50>>),            \* Chapter 23.50
      Raw(0, <<w23_42_010, wScope>>),          \* 23.42.010 Scope.
      Raw(0, <<wLand, wUse>>),                 \* Land Use
      Raw(2, <<wLand, wUse>>) }                \*   Land Use        (indented)

\* Documents whose text resembles headings: headings without inline title
\* followed by prose that begins like a heading
ProseLines ==
    { None,
      Raw(0, <<wSubtitle, wII>>),              \* Subtitle II
      Raw(0, <<wSubtitle, wI, wof>>),          \* Subtitle I of     (prose)
      Raw(0, <<wDivision, wOne, wGeneral>>),   \* Division 1 General
      Raw(0, <<wChapter, w23_50>>),            \* Chapter 23.50
      Raw(0, <<wChapter, w22_10>>),            \* Chapter 22.10     (other title)
      Raw(0, <<wchapter, w23_50>>),            \* chapter 23.50     (prose)
      Raw(0, <<w23_42_010, wScope>>),          \* 23.42.010 Scope.
      Raw(0, <<w22_42_010, wScope>>),          \* 22.42.010 Scope.  (other title)
      Raw(0, <<w23_42, wScope>>),              \* 23.42 Scope.      (one suffix)
      Raw(0, <<wSections>>),                   \* Sections:
      Raw(0, <<wLand, wUse>>),                 \* Land Use
      Raw(2, <<wLand, wUse>>) }                \*   Land Use        (indented)

\* Documents that repeat their headings (a table of contents before the
\* text, a running header): one Subtitle, one Chapter and one Section
\* heading, blank lines and text
DupLines ==
    { None,
      Raw(0, <<wSubtitle, wI, wCodes>>),       \* Subtitle I Codes
      Raw(0, <<wChapter, w23_42, wDefs>>),     \* Chapter 23.42 Defs
      Raw(0, <<w23_42_010, wScope>>),          \* 23.42.010 Scope.
      Raw(0, <<wLand, wUse>>) }                \* Land Use

\* Documents that repeat one of the two Section headings of a Chapter
OrderLines ==
    { Raw(0, <<wSubtitle, wI, wCodes>>),       \* Subtitle I Codes
      Raw(0, <<wChapter, w23_42, wDefs>>),     \* Chapter 23.42 Defs
      Raw(0, <<w23_42_010, wScope>>),          \* 23.42.010 Scope.
      Raw(0, <<w23_42_020, wScope>>),          \* 23.42.020 Scope.
      Raw(0, <<wLand, wUse>>) }                \* Land Use

---------------------------------------------------------------------------
(* HeadingClassifier *)

\* --title: its default, and the title numbers the model is run with
DefaultTitle == 23
TitleNumbers == {22, DefaultTitle}

\* the title's first page: page numbers are index + 1
FirstPage == 1

NoMatch == [matched |-> FALSE, g1 |-> <<>>, g2 |-> <<>>]
Match(a, b) == [matched |-> TRUE, g1 |-> a, g2 |-> b]

\* re.sub(r"[.\-]+$", "", w)
RECURSIVE strip_trailing_punct(_)
strip_trailing_punct(w) ==
    IF Len(w) >= 1 /\ w[Len(w)] \in {".", "-"}
    THEN strip_trailing_punct(SubSeq(w, 1, Len(w) - 1))
    ELSE w

is_roman(c) == lower_char(c) \in {"i","v","x","l","c","d","m"}
is_letter(c) == isupper(c) \/ islower(c)

\* re.fullmatch(r"[IVXLCDM]+(?:[A-Z])?", w, re.IGNORECASE)
roman_token(w) ==
    /\ Len(w) >= 1
    /\ \A i \in 1..(Len(w) - 1) : is_roman(w[i])
    /\ IF Len(w) = 1 THEN is_roman(w[1]) ELSE is_letter(w[Len(w)])

\* parse_subtitle_line: g1 the subtitle number, g2 the subtitle title
parse_subtitle_line(line) ==
    IF ~(Len(line) >= 1 /\ startswith(lower_word(line[1]), subtitle_lc))
    THEN NoMatch
    ELSE IF Len(line) < 2
    THEN NoMatch
    ELSE LET number_token == strip_trailing_punct(line[2])
             subtitle_title == Rest(line, 3)
         IN  IF ~roman_token(number_token)
             THEN NoMatch
             ELSE IF subtitle_title # <<>> /\ islower(subtitle_title[1][1])
             THEN NoMatch
             ELSE Match(<<wSubtitle, upper_word(number_token)>>, subtitle_title)

\* DIVISION_PATTERN = ^Division\s+(\d+)\s+(.*)$  (IGNORECASE)
DIVISION_PATTERN(line) ==
    IF /\ Len(line) >= 3
       /\ lower_word(line[1]) = division_lc
       /\ Len(line[2]) >= 1
       /\ \A i \in DOMAIN line[2] : isdigit(line[2][i])
    THEN Match(<<line[2]>>, Rest(line, 3))
    ELSE NoMatch

\* <prefix>\.[0-9A-Za-z]+ followed by `more` further \.[0-9A-Za-z]+ groups,
\* more >= min_more, more <= max_more
dotted_citation(w, prefix, min_more, max_more) ==
    LET segs == split_dots(w)
    IN  /\ Len(segs) >= 2 + min_more
        /\ Len(segs) <= 2 + max_more
        /\ segs[1] = prefix
        /\ \A i \in 2..Len(segs) : alnum_plus(segs[i])

\* chapter_full = ^\s*Chapter\s+(<prefix>\.[0-9A-Za-z]+)\s+(.*)$  (IGNORECASE)
chapter_full_pattern(prefix, line) ==
    IF /\ Len(line) >= 3
       /\ lower_word(line[1]) = chapter_lc
       /\ dotted_citation(line[2], prefix, 0, 0)
    THEN Match(<<line[2]>>, Rest(line, 3))
    ELSE NoMatch

\* chapter_short = ^\s*Chapter\s+(<prefix>\.[0-9A-Za-z]+)\s*$  (case-sensitive)
chapter_short_pattern(prefix, line) ==
    IF /\ Len(line) = 2
       /\ line[1] = wChapter
       /\ dotted_citation(line[2], prefix, 0, 0)
    THEN Match(<<line[2]>>, <<>>)
    ELSE NoMatch

\* Mutant of section_pattern: the group of further suffixes is optional
\* (zero or more further suffixes instead of one or more)
section_pattern_one_suffix(prefix, line) ==
    IF /\ Len(line) >= 2
       /\ dotted_citation(line[1], prefix, 0, Len(line[1]))
    THEN Match(<<line[1]>>, Rest(line, 2))
    ELSE NoMatch

\* section_pattern = ^\s*(<prefix>\.[0-9A-Za-z]+(?:\.[0-9A-Za-z]+)+)\s+(.*)$
section_pattern(prefix, line) ==
    IF /\ Len(line) >= 2
       /\ dotted_citation(line[1], prefix, 1, Len(line[1]))
    THEN Match(<<line[1]>>, Rest(line, 2))
    ELSE NoMatch

\* re.match(r"^Subtitle\b", line, re.IGNORECASE)
starts_with_subtitle_word(line) ==
    /\ Len(line) >= 1
    /\ startswith(lower_word(line[1]), subtitle_lc)
    /\ (Len(line[1]) = Len(subtitle_lc) \/ ~isword(line[1][Len(subtitle_lc) + 1]))

\* line.lower().startswith("chapter ")
starts_with_chapter_space(line) ==
    /\ Len(line) >= 2
    /\ lower_word(line[1]) = chapter_lc

\* raw_line.strip()
strip(raw) == raw.words


\* re.sub(r"\s+", " ", line): the words of a string are separated by single
\* blanks already
condensed_of(line) == line

\* What lines 273-345 compute from one raw line alone: line, and the result
\* of each pattern on condensed
Scan(n, raw) ==
    LET line == strip(raw)
        condensed == condensed_of(line)
        prefix == str(n)
    IN  [line |-> line,
         subtitle_info |-> parse_subtitle_line(condensed),
         division_match |-> DIVISION_PATTERN(condensed),
         chapter_match |-> chapter_full_pattern(prefix, condensed),
         chapter_short_match |-> chapter_short_pattern(prefix, condensed),
         section_match |-> section_pattern(prefix, condensed),
         subtitle_word |-> starts_with_subtitle_word(line),
         chapter_space |-> starts_with_chapter_space(line),
         is_sections |-> lower(line) = sections_colon]

\* Scan, tabulated over the title numbers and the input alphabet
scan_table ==
    [n \in TitleNumbers |->
        [raw \in (RawLines \cup ProseLines) \ {None} |-> Scan(n, raw)]]

scanned(raw) ==
    IF raw \in DOMAIN scan_table[title_number]
    THEN scan_table[title_number][raw]
    ELSE Scan(title_number, raw)

---------------------------------------------------------------------------
(* PageFormatter: normalize_page_text and iter_lines_with_pages.  The text  *)
(* of a page is the sequence of its lines, raw.split("\n"): never empty,   *)
(* the text "" being one line without words.  A line of a page is a record *)
(* [indent, words]; whitespace at its end, a carriage return included, is  *)
(* not represented (line 177 matches it with \s*, line 193 strips it).     *)

TextLine(indent, words) == [indent |-> indent, words |-> words]

\* the text "" of a page
EmptyText == <<TextLine(0, <<>>)>>

\* \d+
all_digits(w) == Len(w) >= 1 /\ \A i \in DOMAIN w : isdigit(w[i])

\* \d{2}-\d+(?:\.\d+)?
stamp_code(w) ==
    /\ Len(w) >= 4
    /\ isdigit(w[1]) /\ isdigit(w[2]) /\ w[3] = "-"
    /\ LET parts == split_dots(SubSeq(w, 4, Len(w)))
       IN  /\ Len(parts) \in {1, 2}
           /\ \A i \in DOMAIN parts : all_digits(parts[i])

\* \d+-\d+\)
stamp_date(w) ==
    \E k \in DOMAIN w :
        /\ w[k] = "-"
        /\ all_digits(SubSeq(w, 1, k - 1))
        /\ w[Len(w)] = ")"
        /\ all_digits(SubSeq(w, k + 1, Len(w) - 1))

\* FOOTER_PATTERN = ^\d{2}-\d+(?:\.\d+)?\s*\(Seattle\s+\d+-\d+\)$ on the words
\* of a line: the blanks before "(Seattle" may be missing, those after it may
\* not
FOOTER_PATTERN(line) ==
    \/ /\ Len(line) = 3
       /\ stamp_code(line[1])
       /\ line[2] = wSeattle
       /\ stamp_date(line[3])
    \/ /\ Len(line) = 2
       /\ Len(line[1]) > Len(wSeattle)
       /\ SubSeq(line[1], Len(line[1]) - Len(wSeattle) + 1, Len(line[1])) = wSeattle
       /\ stamp_code(SubSeq(line[1], 1, Len(line[1]) - Len(wSeattle)))
       /\ stamp_date(line[2])

\* (?<=\w)-\s*\n at the end of a line
ends_hyphenated(l) ==
    /\ l.words # <<>>
    /\ LET w == l.words[Len(l.words)]
       IN  Len(w) >= 2 /\ w[Len(w)] = "-" /\ isword(w[Len(w) - 1])

\* (?=\w) at the first character of a line that is not blank
begins_word(l) == l.words # <<>> /\ isword(l.words[1][1])

\* the first line after text[1] that has words, 0 when there is none: the
\* \s*\n\s* of line 177 runs over the blank lines between
next_text(text) ==
    IF \A i \in 2..Len(text) : text[i].words = <<>> THEN 0
    ELSE CHOOSE i \in 2..Len(text) :
             /\ text[i].words # <<>>
             /\ \A j \in 2..(i - 1) : text[j].words = <<>>

\* line a, its hyphen removed, continued by line b
join(a, b) ==
    LET w == a.words[Len(a.words)]
    IN  TextLine(a.indent,
                 SubSeq(a.words, 1, Len(a.words) - 1)
                     \o <<SubSeq(w, 1, Len(w) - 1) \o b.words[1]>>
                     \o Tail(b.words))

\* re.sub(r"(?<=\w)-\s*\n\s*(?=\w)", "", text), matches taken left to right
RECURSIVE mend(_)
mend(text) ==
    IF Len(text) <= 1 THEN text
    ELSE LET first == text[1]
             j == next_text(text)
         IN  IF ends_hyphenated(first) /\ j # 0 /\ begins_word(text[j])
             THEN mend(<<join(first, text[j])>> \o Rest(text, j + 1))
             ELSE <<first>> \o mend(Tail(text))

normalize_page_text(raw) ==
    IF raw = EmptyText THEN EmptyText ELSE mend(raw)

\* the inner loop of iter_lines_with_pages (lines 189-196)
RECURSIVE page_lines(_, _)
page_lines(page_number, normalized) ==
    IF normalized = <<>> THEN <<>>
    ELSE LET raw_line == Head(normalized)
             rest == page_lines(page_number, Tail(normalized))
         IN  IF raw_line.words = <<>>
             THEN <<[raw_line |-> None, page |-> page_number]>> \o rest
             ELSE IF FOOTER_PATTERN(raw_line.words)
             THEN rest
             ELSE <<[raw_line |-> Raw(raw_line.indent, raw_line.words),
                     page |-> page_number]>> \o rest

\* list(iter_lines_with_pages(pgs))
RECURSIVE iter_lines_with_pages(_)
iter_lines_with_pages(pgs) ==
    IF pgs = <<>> THEN <<>>
    ELSE page_lines(Head(pgs).page_number, normalize_page_text(Head(pgs).text))
             \o iter_lines_with_pages(Tail(pgs))

\* Pages with footer stamps, hyphenated line breaks and blank lines
PhysLines ==
    { TextLine(0, <<>>),                          \* (empty)
      TextLine(2, <<>>),                          \* (two blanks)
      TextLine(0, <<wSubtitle, wI, wCodes>>),     \* Subtitle I Codes
      TextLine(0, <<wChapter, w23_42, wDefs>>),   \* Chapter 23.42 Defs
      TextLine(0, <<w23_42_010, wScope>>),        \* 23.42.010 Scope.
      TextLine(0, <<wLand, wUse>>),               \* Land Use
      TextLine(0, <<wLand, wuse_hyphen>>),        \* Land use-
      TextLine(0, <<w23_12, wSeattle, w9_23>>),   \* 23-12 (Seattle 9-23)
      TextLine(2, <<w23_12_5_Seattle, w9_23>>),   \*   23-12.5(Seattle 9-23)
      TextLine(0, <<w3_12, wSeattle, w9_23>>) }   \* 3-12 (Seattle 9-23)

\* extract_pages: the pages numbered from the first; `flat` the lines of the
\* document, `ends` the places of the last line of each page
make_pages(flat, ends) ==
    LET last(k) == CHOOSE e \in ends : Cardinality({x \in ends : x < e}) = k - 1
    IN  [k \in 1..Cardinality(ends) |->
            [page_number |-> FirstPage + k - 1,
             text |-> SubSeq(flat, IF k = 1 THEN 1 ELSE last(k - 1) + 1, last(k))]]

\* the places where a document of t lines may be cut into at most MaxPage
\* pages
PageEnds(t) ==
    {e \cup {t} : e \in {c \in SUBSET (1..(t - 1)) : Cardinality(c) < MaxPage}}

---------------------------------------------------------------------------
(* DocumentModel: the node dataclasses *)

Section(citation, heading, start_page, end_page) ==
    [kind |-> "Section", citation |-> citation, heading |-> heading,
     start_page |-> start_page, end_page |-> end_page, body_lines |-> <<>>]

Chapter(citation, title, start_page, end_page) ==
    [kind |-> "Chapter", citation |-> citation, title |-> title,
     start_page |-> start_page, end_page |-> end_page,
     intro_lines |-> <<>>, sections |-> <<>>]

Division(number, title, start_page, end_page) ==
    [kind |-> "Division", number |-> number, title |-> title,
     start_page |-> start_page, end_page |-> end_page,
     intro_lines |-> <<>>, chapters |-> <<>>]

Subtitle(number, title, start_page, end_page) ==
    [kind |-> "Subtitle", number |-> number, title |-> title,
     start_page |-> start_page, end_page |-> end_page,
     intro_lines |-> <<>>, divisions |-> <<>>, chapters |-> <<>>]

\* Section.has_body: any(line.strip() for line in self.body_lines)
has_body(section) ==
    \E i \in DOMAIN section.body_lines : section.body_lines[i] # <<>>

Max(a, b) == IF a >= b THEN a ELSE b

---------------------------------------------------------------------------
(* HierarchyBuilder: the state of build_title_structure as one record, so  *)
(* that the nested finalize_* closures are functions of it                 *)

Cur ==
    [heap |-> heap,
     current_subtitle |-> current_subtitle,
     current_division |-> current_division,
     current_chapter |-> current_chapter,
     current_section |-> current_section,
     preface_lines |-> preface_lines,
     subtitles |-> subtitles]

\* (t is s, evaluated once)
Set(s) ==
    \E t \in {s} :
        /\ heap' = t.heap
        /\ current_subtitle' = t.current_subtitle
        /\ current_division' = t.current_division
        /\ current_chapter' = t.current_chapter
        /\ current_section' = t.current_section
        /\ preface_lines' = t.preface_lines
        /\ subtitles' = t.subtitles

\* Mutant of finalize_section: the open section is closed without being
\* appended to its chapter
finalize_section_drop(s) == [s EXCEPT !.current_section = 0]

finalize_section(s) ==
    [s EXCEPT
       !.heap = IF s.current_section # 0 /\ s.current_chapter # 0
                THEN [@ EXCEPT ![s.current_chapter].sections =
                                   Append(@, s.current_section)]
                ELSE @,
       !.current_section = 0]

\* Mutant of finalize_chapter: the tests of lines 232 and 234 in reverse
\* order, the open subtitle is preferred to the open division
finalize_chapter_subtitle_first(s) ==
    LET t == finalize_section(s)
        c == t.current_chapter
    IN  [t EXCEPT
           !.heap = IF c = 0 THEN @
                    ELSE IF t.current_subtitle # 0
                    THEN [@ EXCEPT ![t.current_subtitle].chapters = Append(@, c)]
                    ELSE IF t.current_division # 0
                    THEN [@ EXCEPT ![t.current_division].chapters = Append(@, c)]
                    ELSE @,
           !.preface_lines =
                    IF c # 0 /\ t.current_division = 0 /\ t.current_subtitle = 0
                    THEN @ \o t.heap[c].intro_lines
                    ELSE @,
           !.current_chapter = 0]

\* Mutant of finalize_chapter: `if` for `elif`, the chapter is appended to
\* the open division and to the open subtitle
finalize_chapter_both(s) ==
    LET t == finalize_section(s)
        c == t.current_chapter
        h1 == IF c # 0 /\ t.current_division # 0
              THEN [t.heap EXCEPT ![t.current_division].chapters = Append(@, c)]
              ELSE t.heap
        h2 == IF c # 0 /\ t.current_subtitle # 0
              THEN [h1 EXCEPT ![t.current_subtitle].chapters = Append(@, c)]
              ELSE h1
    IN  [t EXCEPT
           !.heap = h2,
           !.preface_lines =
                    IF c # 0 /\ t.current_division = 0 /\ t.current_subtitle = 0
                    THEN @ \o t.heap[c].intro_lines
                    ELSE @,
           !.current_chapter = 0]

\* Mutant of finalize_chapter: an orphaned chapter is dropped, its intro
\* lines with it
finalize_chapter_drop_orphan(s) ==
    LET t == finalize_section(s)
        c == t.current_chapter
    IN  [t EXCEPT
           !.heap = IF c = 0 THEN @
                    ELSE IF t.current_division # 0
                    THEN [@ EXCEPT ![t.current_division].chapters = Append(@, c)]
                    ELSE IF t.current_subtitle # 0
                    THEN [@ EXCEPT ![t.current_subtitle].chapters = Append(@, c)]
                    ELSE @,
           !.current_chapter = 0]

finalize_chapter(s) ==
    LET t == finalize_section(s)
        c == t.current_chapter
    IN  [t EXCEPT
           !.heap = IF c = 0 THEN @
                    ELSE IF t.current_division # 0
                    THEN [@ EXCEPT ![t.current_division].chapters = Append(@, c)]
                    ELSE IF t.current_subtitle # 0
                    THEN [@ EXCEPT ![t.current_subtitle].chapters = Append(@, c)]
                    ELSE @,
           !.preface_lines =
                    IF c # 0 /\ t.current_division = 0 /\ t.current_subtitle = 0
                    THEN @ \o t.heap[c].intro_lines
                    ELSE @,
           !.current_chapter = 0]

\* Mutant of finalize_division: the open division is closed without being
\* appended to the open subtitle
finalize_division_drop(s) ==
    [finalize_chapter(s) EXCEPT !.current_division = 0]

finalize_division(s) ==
    LET t == finalize_chapter(s)
    IN  [t EXCEPT
           !.heap = IF t.current_division # 0 /\ t.current_subtitle # 0
                    THEN [@ EXCEPT ![t.current_subtitle].divisions =
                                       Append(@, t.current_division)]
                    ELSE @,
           !.current_division = 0]

\* Mutant of finalize_subtitle: the cascade (finalize_division) is not called
finalize_subtitle_no_cascade(s) ==
    [s EXCEPT
       !.subtitles = IF s.current_subtitle # 0
                     THEN Append(@, s.current_subtitle)
                     ELSE @,
       !.current_subtitle = 0]

finalize_subtitle(s) ==
    LET t == finalize_division(s)
    IN  [t EXCEPT
           !.subtitles = IF t.current_subtitle # 0
                         THEN Append(@, t.current_subtitle)
                         ELSE @,
           !.current_subtitle = 0]

\* current_section or current_chapter or current_division or current_subtitle
target(s) ==
    IF s.current_section # 0 THEN s.current_section
    ELSE IF s.current_chapter # 0 THEN s.current_chapter
    ELSE IF s.current_division # 0 THEN s.current_division
    ELSE s.current_subtitle

\* target.body_lines.append(text) / target.intro_lines.append(text)
append_line(h, t, text) ==
    IF h[t].kind = "Section"
    THEN [h EXCEPT ![t].body_lines = Append(@, text)]
    ELSE [h EXCEPT ![t].intro_lines = Append(@, text)]

\* Mutant of division_applies: the open-subtitle test is missing
division_applies_no_parent(s, m) ==
    m.division_match.matched

\* line 292: division_match and current_subtitle is not None
division_applies(s, m) ==
    m.division_match.matched /\ s.current_subtitle # 0

\* Mutant of section_applies: the open-chapter test is missing
section_applies_no_parent(s, m) ==
    m.section_match.matched

\* line 326: section_match and current_chapter is not None
section_applies(s, m) ==
    m.section_match.matched /\ s.current_chapter # 0

\* lines 338-345: the deferred subtitle title
subtitle_title_applies(s, m) ==
    /\ s.current_subtitle # 0
    /\ s.heap[s.current_subtitle].title = <<>>
    /\ s.current_chapter = 0
    /\ ~m.subtitle_word
    /\ ~m.chapter_space
    /\ ~m.is_sections

\* Mutant of chapter_title_applies: the test `not current_chapter.title` is
\* missing
chapter_title_applies_retitle(s, m) ==
    /\ s.current_chapter # 0
    /\ s.current_section = 0
    /\ ~m.is_sections

\* lines 350-355: the deferred chapter title
chapter_title_applies(s, m) ==
    /\ s.current_chapter # 0
    /\ s.heap[s.current_chapter].title = <<>>
    /\ s.current_section = 0
    /\ ~m.is_sections

\* Which branch of the loop body one stream element takes in state s
Branch(s, raw) ==
    IF raw.is_none THEN "blank"
    ELSE LET m == scanned(raw)
         IN  IF m.subtitle_info.matched THEN "subtitle"
             ELSE IF division_applies(s, m) THEN "division"
             ELSE IF m.chapter_match.matched \/ m.chapter_short_match.matched
             THEN "chapter"
             ELSE IF section_applies(s, m) THEN "section"
             ELSE IF subtitle_title_applies(s, m) THEN "subtitle_title"
             ELSE IF chapter_title_applies(s, m) THEN "chapter_title"
             ELSE "text"

\* Mutant of blank_end_page: the parameter start_page of
\* build_title_structure is written for the loop variable page
blank_end_page_param(p) == FirstPage

\* lines 259-268: target.end_page = page
blank_end_page(p) == p

\* Mutant of new_section: end_page is taken from the open chapter
new_section_stale(s, section_match, p) ==
    Section(section_match.g1, section_match.g2, p,
            s.heap[s.current_chapter].end_page)

\* lines 330-335: the Section a section heading on page p opens in state s
new_section(s, section_match, p) ==
    Section(section_match.g1, section_match.g2, p, p)

\* the reference the next object created gets
NewRef(s) == Len(s.heap) + 1

\* for raw_line, page in lines: the stream is finite and its page numbers do
\* not decrease
Read(raw, p, branch) ==
    /\ pc = "loop"
    /\ Branch(Cur, raw) = branch
    /\ page' = p
    /\ title_number' = title_number
    /\ consumed' = consumed + 1
    /\ inp' = [raw_line |-> raw, page |-> p]
    /\ pc' = pc
    /\ UNCHANGED <<pages, lines, reader, output, section_citation, full_citation>>

\* Mutant of BlankLine: current_chapter.sections[-1] is written for
\* current_section, the marker goes to the section attached last
BlankLine_attached_section(raw, p) ==
    /\ Read(raw, p, "blank")
    /\ LET t == IF current_section # 0 /\ heap[current_chapter].sections # <<>>
                THEN heap[current_chapter].sections[Len(heap[current_chapter].sections)]
                ELSE target(Cur)
       IN  IF t # 0
           THEN /\ heap' = [append_line(heap, t, <<>>) EXCEPT
                              ![t].end_page = blank_end_page(p)]
                /\ preface_lines' = preface_lines
           ELSE /\ preface_lines' = Append(preface_lines, <<>>)
                /\ heap' = heap
    /\ UNCHANGED <<current_subtitle, current_division, current_chapter,
                   current_section, subtitles>>

\* Mutant of BlankLine: the blank marker is appended, target.end_page is
\* not assigned
BlankLine_no_page(raw, p) ==
    /\ Read(raw, p, "blank")
    /\ LET t == target(Cur)
       IN  IF t # 0
           THEN /\ heap' = append_line(heap, t, <<>>)
                /\ preface_lines' = preface_lines
           ELSE /\ preface_lines' = Append(preface_lines, <<>>)
                /\ heap' = heap
    /\ UNCHANGED <<current_subtitle, current_division, current_chapter,
                   current_section, subtitles>>

\* lines 255-271
BlankLine(raw, p) ==
    /\ Read(raw, p, "blank")
    /\ LET t == target(Cur)
       IN  IF t # 0
           THEN /\ heap' = [append_line(heap, t, <<>>) EXCEPT
                              ![t].end_page = blank_end_page(p)]
                /\ preface_lines' = preface_lines
           ELSE /\ preface_lines' = Append(preface_lines, <<>>)
                /\ heap' = heap
    /\ UNCHANGED <<current_subtitle, current_division, current_chapter,
                   current_section, subtitles>>

\* Mutant of SubtitleMatch: the parameter start_page of build_title_structure
\* is written for the loop variable page in start_page=page
SubtitleMatch_start_page(raw, p) ==
    /\ Read(raw, p, "subtitle")
    /\ LET subtitle_info == scanned(raw).subtitle_info
           t == finalize_subtitle(Cur)
       IN  Set([t EXCEPT
                  !.heap = Append(@, Subtitle(subtitle_info.g1, subtitle_info.g2,
                                              FirstPage, p)),
                  !.current_subtitle = NewRef(t),
                  !.current_division = 0,
                  !.current_chapter = 0,
                  !.current_section = 0])

\* lines 276-289
SubtitleMatch(raw, p) ==
    /\ Read(raw, p, "subtitle")
    /\ LET subtitle_info == scanned(raw).subtitle_info
           t == finalize_subtitle(Cur)
       IN  Set([t EXCEPT
                  !.heap = Append(@, Subtitle(subtitle_info.g1, subtitle_info.g2, p, p)),
                  !.current_subtitle = NewRef(t),
                  !.current_division = 0,
                  !.current_chapter = 0,
                  !.current_section = 0])

\* Mutant of DivisionMatch: the parameter start_page of build_title_structure
\* is written for the loop variable page in start_page=page
DivisionMatch_start_page(raw, p) ==
    /\ Read(raw, p, "division")
    /\ LET division_match == scanned(raw).division_match
           t == finalize_division(Cur)
       IN  Set([t EXCEPT
                  !.heap = Append(@, Division(division_match.g1, division_match.g2,
                                              FirstPage, p)),
                  !.current_division = NewRef(t),
                  !.current_chapter = 0,
                  !.current_section = 0])

\* lines 291-304
DivisionMatch(raw, p) ==
    /\ Read(raw, p, "division")
    /\ LET division_match == scanned(raw).division_match
           t == finalize_division(Cur)
       IN  Set([t EXCEPT
                  !.heap = Append(@, Division(division_match.g1, division_match.g2, p, p)),
                  !.current_division = NewRef(t),
                  !.current_chapter = 0,
                  !.current_section = 0])

\* Mutant of ChapterMatch: finalize_section is called for finalize_chapter,
\* the open chapter is replaced without being attached
ChapterMatch_finalize_section(raw, p) ==
    /\ Read(raw, p, "chapter")
    /\ LET chapter_match == scanned(raw).chapter_match
           chapter_short_match == scanned(raw).chapter_short_match
           match == IF chapter_match.matched THEN chapter_match
                    ELSE chapter_short_match
           chapter_title == IF chapter_match.matched THEN chapter_match.g2 ELSE <<>>
           t == finalize_section(Cur)
       IN  Set([t EXCEPT
                  !.heap = Append(@, Chapter(match.g1, chapter_title, p, p)),
                  !.current_chapter = NewRef(t),
                  !.current_section = 0])

\* lines 306-323
ChapterMatch(raw, p) ==
    /\ Read(raw, p, "chapter")
    /\ LET chapter_match == scanned(raw).chapter_match
           chapter_short_match == scanned(raw).chapter_short_match
           match == IF chapter_match.matched THEN chapter_match
                    ELSE chapter_short_match
           chapter_title == IF chapter_match.matched THEN chapter_match.g2 ELSE <<>>
           t == finalize_chapter(Cur)
       IN  Set([t EXCEPT
                  !.heap = Append(@, Chapter(match.g1, chapter_title, p, p)),
                  !.current_chapter = NewRef(t),
                  !.current_section = 0])

\* Mutant of SectionMatch: opening a section extends the open chapter to
\* the page of the section heading
SectionMatch_extend_chapter(raw, p) ==
    /\ Read(raw, p, "section")
    /\ LET section_match == scanned(raw).section_match
           t == finalize_section(Cur)
       IN  Set([t EXCEPT
                  !.heap = Append([@ EXCEPT ![t.current_chapter].end_page = Max(@, p)],
                                  new_section(t, section_match, p)),
                  !.current_section = NewRef(t)])

\* Mutant of SectionMatch: finalize_section is not called, the open section
\* is replaced without being appended to the chapter
SectionMatch_no_finalize(raw, p) ==
    /\ Read(raw, p, "section")
    /\ LET section_match == scanned(raw).section_match
       IN  Set([Cur EXCEPT
                  !.heap = Append(@, new_section(Cur, section_match, p)),
                  !.current_section = NewRef(Cur)])

\* lines 325-336
SectionMatch(raw, p) ==
    /\ Read(raw, p, "section")
    /\ LET section_match == scanned(raw).section_match
           t == finalize_section(Cur)
       IN  Set([t EXCEPT
                  !.heap = Append(@, new_section(t, section_match, p)),
                  !.current_section = NewRef(t)])

\* Mutant of DeferredSubtitleTitle: the `continue` of line 348 is missing, the
\* line reaches the text branch too
DeferredSubtitleTitle_fallthrough(raw, p) ==
    /\ Read(raw, p, "subtitle_title")
    /\ LET t == target(Cur)
       IN  heap' = [append_line(heap, t, scanned(raw).line) EXCEPT
                      ![current_subtitle].title = scanned(raw).line,
                      ![current_subtitle].end_page = Max(@, p)]
    /\ UNCHANGED <<current_subtitle, current_division, current_chapter,
                   current_section, preface_lines, subtitles>>

DeferredSubtitleTitle(raw, p) ==
    /\ Read(raw, p, "subtitle_title")
    /\ heap' = [heap EXCEPT
                  ![current_subtitle].title = scanned(raw).line,
                  ![current_subtitle].end_page = Max(@, p)]
    /\ UNCHANGED <<current_subtitle, current_division, current_chapter,
                   current_section, preface_lines, subtitles>>

\* Mutant of DeferredChapterTitle: the `continue` of line 358 is missing, the
\* line reaches the text branch too
DeferredChapterTitle_fallthrough(raw, p) ==
    /\ Read(raw, p, "chapter_title")
    /\ heap' = [append_line(heap, current_chapter, scanned(raw).line) EXCEPT
                  ![current_chapter].title = scanned(raw).line,
                  ![current_chapter].end_page = Max(@, p)]
    /\ UNCHANGED <<current_subtitle, current_division, current_chapter,
                   current_section, preface_lines, subtitles>>

DeferredChapterTitle(raw, p) ==
    /\ Read(raw, p, "chapter_title")
    /\ heap' = [heap EXCEPT
                  ![current_chapter].title = scanned(raw).line,
                  ![current_chapter].end_page = Max(@, p)]
    /\ UNCHANGED <<current_subtitle, current_division, current_chapter,
                   current_section, preface_lines, subtitles>>

\* Mutant of PlainText: line 360 with the slots in reverse order, the line
\* goes to the outermost open node
PlainText_outermost(raw, p) ==
    /\ Read(raw, p, "text")
    /\ LET t == IF current_subtitle # 0 THEN current_subtitle
                ELSE IF current_division # 0 THEN current_division
                ELSE IF current_chapter # 0 THEN current_chapter
                ELSE current_section
       IN  IF t # 0
           THEN /\ heap' = [append_line(heap, t, scanned(raw).line) EXCEPT
                              ![t].end_page = Max(@, p)]
                /\ preface_lines' = preface_lines
           ELSE /\ preface_lines' = Append(preface_lines, scanned(raw).line)
                /\ heap' = heap
    /\ UNCHANGED <<current_subtitle, current_division, current_chapter,
                   current_section, subtitles>>

\* lines 360-374
PlainText(raw, p) ==
    /\ Read(raw, p, "text")
    /\ LET t == target(Cur)
       IN  IF t # 0
           THEN /\ heap' = [append_line(heap, t, scanned(raw).line) EXCEPT
                              ![t].end_page = Max(@, p)]
                /\ preface_lines' = preface_lines
           ELSE /\ preface_lines' = Append(preface_lines, scanned(raw).line)
                /\ heap' = heap
    /\ UNCHANGED <<current_subtitle, current_division, current_chapter,
                   current_section, subtitles>>

\* Mutant of EndOfStream: the function returns after line 376, clean_title
\* is not called
EndOfStream_return ==
    /\ pc = "loop"
    /\ Set(finalize_subtitle(Cur))
    /\ pc' = "done"
    /\ UNCHANGED <<title_number, page, consumed, inp, pages, lines, reader, output,
                   section_citation, full_citation>>

\* line 376: the stream is exhausted
EndOfStream ==
    /\ pc = "loop"
    /\ Set(finalize_subtitle(Cur))
    /\ pc' = "finalized"
    /\ UNCHANGED <<title_number, page, consumed, inp, pages, lines, reader, output,
                   section_citation, full_citation>>


---------------------------------------------------------------------------
(* Deduplicator: clean_title *)

\* Mutant of should_replace_section: the later section always wins
should_replace_section_later(existing, new) == TRUE

should_replace_section(existing, new) ==
    LET existing_has_body == has_body(existing)
        new_has_body == has_body(new)
    IN  IF new_has_body /\ ~existing_has_body THEN TRUE
        ELSE IF new_has_body = existing_has_body
                /\ (\/ Len(new.body_lines) > Len(existing.body_lines)
                    \/ new.end_page >= existing.end_page)
        THEN TRUE
        ELSE FALSE

\* sum(len(div.chapters) for div in divisions)
RECURSIVE sum_chapters(_, _)
sum_chapters(h, divisions) ==
    IF divisions = <<>> THEN 0
    ELSE Len(h[Head(divisions)].chapters) + sum_chapters(h, Tail(divisions))

weight(h, subtitle) ==
    Len(subtitle.divisions) + Len(subtitle.chapters)
        + sum_chapters(h, subtitle.divisions)

\* Mutant of should_replace_subtitle: the weights are not compared, the later
\* end_page wins
should_replace_subtitle_by_page(h, existing, new) ==
    new.end_page >= existing.end_page

should_replace_subtitle(h, existing, new) ==
    LET existing_weight == weight(h, existing)
        new_weight == weight(h, new)
    IN  IF new_weight > existing_weight THEN TRUE
        ELSE IF new_weight = existing_weight /\ new.end_page >= existing.end_page
        THEN TRUE
        ELSE FALSE

\* the loop of clean_chapter: `todo` the sections still to visit, `deduped`
\* the list built so far; index_map[key] is the one index of deduped whose
\* section has citation key
RECURSIVE clean_chapter_loop(_, _, _)
clean_chapter_loop(h, todo, deduped) ==
    IF todo = <<>> THEN deduped
    ELSE LET section == Head(todo)
             key == h[section].citation
             hit == {i \in DOMAIN deduped : h[deduped[i]].citation = key}
         IN  IF hit # {}
             THEN LET idx == CHOOSE i \in hit : TRUE
                  IN  clean_chapter_loop(h, Tail(todo),
                          IF should_replace_section(h[deduped[idx]], h[section])
                          THEN [deduped EXCEPT ![idx] = section]
                          ELSE deduped)
             ELSE clean_chapter_loop(h, Tail(todo), Append(deduped, section))

\* Mutant of clean_chapter: chapter.sections is left as it is
clean_chapter_keep(h, chapter) == chapter.sections

clean_chapter(h, chapter) == clean_chapter_loop(h, chapter.sections, <<>>)

\* the chapters clean_subtitle visits: those of the subtitle's divisions and
\* the subtitle's own
chapters_of_subtitle(h, sub) ==
    UNION {Range(h[d].chapters) : d \in Range(h[sub].divisions)}
        \cup Range(h[sub].chapters)

\* the loop over title.subtitles (lines 412-422), sections already cleaned
RECURSIVE clean_subtitles_loop(_, _, _)
clean_subtitles_loop(h, todo, cleaned) ==
    IF todo = <<>> THEN cleaned
    ELSE LET subtitle == Head(todo)
             key == lower(h[subtitle].number)
             hit == {i \in DOMAIN cleaned : lower(h[cleaned[i]].number) = key}
         IN  IF hit # {}
             THEN LET idx == CHOOSE i \in hit : TRUE
                  IN  clean_subtitles_loop(h, Tail(todo),
                          IF should_replace_subtitle(h, h[cleaned[idx]], h[subtitle])
                          THEN [cleaned EXCEPT ![idx] = subtitle]
                          ELSE cleaned)
             ELSE clean_subtitles_loop(h, Tail(todo), Append(cleaned, subtitle))

\* list.sort(key=lambda s: s.start_page): stable
RECURSIVE insert_sorted(_, _, _)
insert_sorted(h, sorted, x) ==
    IF sorted = <<>> THEN <<x>>
    ELSE IF h[Head(sorted)].start_page <= h[x].start_page
    THEN <<Head(sorted)>> \o insert_sorted(h, Tail(sorted), x)
    ELSE <<x>> \o sorted

\* Mutant of sort_by_start_page: the list is left in the order of cleaned
sort_by_start_page_skip(h, list) == list

RECURSIVE sort_by_start_page(_, _)
sort_by_start_page(h, list) ==
    IF list = <<>> THEN <<>>
    ELSE insert_sorted(h, sort_by_start_page(h, SubSeq(list, 1, Len(list) - 1)),
                       list[Len(list)])

\* Mutant of clean_title: a surviving section takes the first start_page among
\* the sections of its chapter that have its citation
clean_title_merging(s) ==
    LET visited == UNION {chapters_of_subtitle(s.heap, sub) :
                              sub \in Range(s.subtitles)}
        h == [i \in DOMAIN s.heap |->
                 IF i \in visited
                 THEN [s.heap[i] EXCEPT !.sections = clean_chapter(s.heap, s.heap[i])]
                 ELSE s.heap[i]]
        first(x) == s.heap[CHOOSE y \in DOMAIN s.heap :
                              /\ \E c \in visited :
                                    {x, y} \subseteq Range(s.heap[c].sections)
                              /\ s.heap[y].citation = s.heap[x].citation
                              /\ \A z \in DOMAIN s.heap :
                                    (/\ \E c \in visited :
                                          {x, z} \subseteq Range(s.heap[c].sections)
                                     /\ s.heap[z].citation = s.heap[x].citation)
                                    => y <= z].start_page
        merged == [i \in DOMAIN h |->
                     IF \E c \in visited : i \in Range(h[c].sections)
                     THEN [h[i] EXCEPT !.start_page = first(i)]
                     ELSE h[i]]
        cleaned == clean_subtitles_loop(merged, s.subtitles, <<>>)
    IN  [s EXCEPT !.heap = merged,
                  !.subtitles = sort_by_start_page(merged, cleaned)]

clean_title(s) ==
    LET visited == UNION {chapters_of_subtitle(s.heap, sub) :
                              sub \in Range(s.subtitles)}
        h == [i \in DOMAIN s.heap |->
                 IF i \in visited
                 THEN [s.heap[i] EXCEPT !.sections = clean_chapter(s.heap, s.heap[i])]
                 ELSE s.heap[i]]
        cleaned == clean_subtitles_loop(h, s.subtitles, <<>>)
    IN  \* (c is cleaned, evaluated once)
        CHOOSE r \in {[s EXCEPT !.heap = h, !.subtitles = sort_by_start_page(h, c)] :
                          c \in {cleaned}} : TRUE

\* line 377
CleanTitle ==
    /\ pc = "finalized"
    /\ Set(clean_title(Cur))
    /\ pc' = "done"
    /\ UNCHANGED <<title_number, page, consumed, inp, pages, lines, reader, output,
                   section_citation, full_citation>>

---------------------------------------------------------------------------
(* The specification *)

NoInput == [raw_line |-> None, page |-> 0]

\* the state when the loop of build_title_structure is entered for title n
Begin(n) ==
    /\ title_number = n
    /\ heap = <<>>
    /\ current_subtitle = 0
    /\ current_division = 0
    /\ current_chapter = 0
    /\ current_section = 0
    /\ preface_lines = <<>>
    /\ subtitles = <<>>
    /\ page = FirstPage
    /\ consumed = 0
    /\ inp = NoInput
    /\ pc = "loop"

\* ... with a stream whose elements are drawn as they are read
Start(n) ==
    /\ Begin(n)
    /\ pages = <<>>
    /\ lines = <<>>
    /\ reader = <<>>
    /\ output = <<>>
    /\ section_citation = NoCitation
    /\ full_citation = NoCitation

Init == Start(DefaultTitle)

InitProse == \E n \in TitleNumbers : Start(n)

Next ==
    \/ \E raw \in RawLines, p \in page..MaxPage :
           consumed < MaxLines /\ BlankLine(raw, p)
    \/ \E raw \in RawLines, p \in page..MaxPage :
           consumed < MaxLines /\ SubtitleMatch(raw, p)
    \/ \E raw \in RawLines, p \in page..MaxPage :
           consumed < MaxLines /\ DivisionMatch(raw, p)
    \/ \E raw \in RawLines, p \in page..MaxPage :
           consumed < MaxLines /\ ChapterMatch(raw, p)
    \/ \E raw \in RawLines, p \in page..MaxPage :
           consumed < MaxLines /\ SectionMatch(raw, p)
    \/ \E raw \in RawLines, p \in page..MaxPage :
           consumed < MaxLines /\ DeferredSubtitleTitle(raw, p)
    \/ \E raw \in RawLines, p \in page..MaxPage :
           consumed < MaxLines /\ DeferredChapterTitle(raw, p)
    \/ \E raw \in RawLines, p \in page..MaxPage :
           consumed < MaxLines /\ PlainText(raw, p)
    \/ EndOfStream
    \/ CleanTitle

Spec == Init /\ [][Next]_vars

NextProse ==
    \/ \E raw \in ProseLines, p \in page..MaxPage :
           consumed < MaxProseLines /\ BlankLine(raw, p)
    \/ \E raw \in ProseLines, p \in page..MaxPage :
           consumed < MaxProseLines /\ SubtitleMatch(raw, p)
    \/ \E raw \in ProseLines, p \in page..MaxPage :
           consumed < MaxProseLines /\ DivisionMatch(raw, p)
    \/ \E raw \in ProseLines, p \in page..MaxPage :
           consumed < MaxProseLines /\ ChapterMatch(raw, p)
    \/ \E raw \in ProseLines, p \in page..MaxPage :
           consumed < MaxProseLines /\ SectionMatch(raw, p)
    \/ \E raw \in ProseLines, p \in page..MaxPage :
           consumed < MaxProseLines /\ DeferredSubtitleTitle(raw, p)
    \/ \E raw \in ProseLines, p \in page..MaxPage :
           consumed < MaxProseLines /\ DeferredChapterTitle(raw, p)
    \/ \E raw \in ProseLines, p \in page..MaxPage :
           consumed < MaxProseLines /\ PlainText(raw, p)
    \/ EndOfStream
    \/ CleanTitle

SpecProse == InitProse /\ [][NextProse]_vars

\* With DupLines no Division heading is read, and every Subtitle and every
\* Chapter heading carries its title: lines 291-304 and 338-358 are not
\* entered
NextDup ==
    \/ \E raw \in DupLines, p \in page..MaxPage :
           consumed < MaxDupLines /\ BlankLine(raw, p)
    \/ \E raw \in DupLines, p \in page..MaxPage :
           consumed < MaxDupLines /\ SubtitleMatch(raw, p)
    \/ \E raw \in DupLines, p \in page..MaxPage :
           consumed < MaxDupLines /\ ChapterMatch(raw, p)
    \/ \E raw \in DupLines, p \in page..MaxPage :
           consumed < MaxDupLines /\ SectionMatch(raw, p)
    \/ \E raw \in DupLines, p \in page..MaxPage :
           consumed < MaxDupLines /\ PlainText(raw, p)
    \/ EndOfStream
    \/ CleanTitle

SpecDup == Init /\ [][NextDup]_vars

\* With OrderLines no blank line and no Division heading is read, and every
\* Subtitle and every Chapter heading carries its title: lines 255-271,
\* 291-304 and 338-358 are not entered
NextOrder ==
    \/ \E raw \in OrderLines, p \in page..MaxPage :
           consumed < MaxDupLines /\ SubtitleMatch(raw, p)
    \/ \E raw \in OrderLines, p \in page..MaxPage :
           consumed < MaxDupLines /\ ChapterMatch(raw, p)
    \/ \E raw \in OrderLines, p \in page..MaxPage :
           consumed < MaxDupLines /\ SectionMatch(raw, p)
    \/ \E raw \in OrderLines, p \in page..MaxPage :
           consumed < MaxDupLines /\ PlainText(raw, p)
    \/ EndOfStream
    \/ CleanTitle

SpecOrder == Init /\ [][NextOrder]_vars

---------------------------------------------------------------------------
(* Vocabulary of the properties *)

Nodes == DOMAIN heap
NodesOf(kind) == {i \in Nodes : heap[i].kind = kind}

\* the text buffer of a node
LinesOf(node) ==
    IF node.kind = "Section" THEN node.body_lines ELSE node.intro_lines

\* the places <<parent, index>> of child lists that hold reference x
SectionSlots(x) ==
    {q \in NodesOf("Chapter") \X Nodes :
        q[2] <= Len(heap[q[1]].sections) /\ heap[q[1]].sections[q[2]] = x}
ChapterSlots(x) ==
    {q \in (NodesOf("Division") \cup NodesOf("Subtitle")) \X Nodes :
        q[2] <= Len(heap[q[1]].chapters) /\ heap[q[1]].chapters[q[2]] = x}
DivisionSlots(x) ==
    {q \in NodesOf("Subtitle") \X Nodes :
        q[2] <= Len(heap[q[1]].divisions) /\ heap[q[1]].divisions[q[2]] = x}
SubtitleSlots(x) == {j \in DOMAIN subtitles : subtitles[j] = x}

AllClosed ==
    /\ current_subtitle = 0
    /\ current_division = 0
    /\ current_chapter = 0
    /\ current_section = 0

\* References are handed out in order of creation, and once a Subtitle has
\* been opened the subtitle slot stays occupied until the stream ends: a
\* Chapter was opened while a Subtitle was open iff a Subtitle is older
OpenedUnderSubtitle(x) == \E y \in NodesOf("Subtitle") : y < x
SubtitleStaysOpen ==
    pc = "loop" => (current_subtitle # 0 <=> NodesOf("Subtitle") # {})

\* this step is one iteration of the loop: it consumed inp'
LineStep == pc = "loop" /\ pc' = "loop" /\ consumed' = consumed + 1

\* the line matches none of the four heading patterns
NoHeadingMatch(m) ==
    /\ ~m.subtitle_info.matched
    /\ ~m.division_match.matched
    /\ ~m.chapter_match.matched
    /\ ~m.chapter_short_match.matched
    /\ ~m.section_match.matched

\* this step changes no text buffer
BuffersUnchanged ==
    /\ preface_lines' = preface_lines
    /\ \A i \in Nodes : LinesOf(heap'[i]) = LinesOf(heap[i])

SlotsUnchanged ==
    UNCHANGED <<current_subtitle, current_division, current_chapter,
                current_section>>

\* the chapters of the tree title.subtitles spans
ChaptersInTree ==
    UNION {chapters_of_subtitle(heap, sub) : sub \in Range(subtitles)}

---------------------------------------------------------------------------
(* The specifications of main: the stream is fixed before the loop starts *)

\* lines 563-575: the stream is iter_lines_with_pages of the extracted pages
InitStream ==
    \E t \in 1..MaxTextLines :
        \E flat \in [1..t -> PhysLines], ends \in PageEnds(t) :
            /\ Begin(DefaultTitle)
            /\ pages = make_pages(flat, ends)
            /\ lines = iter_lines_with_pages(pages)
            /\ reader = <<>>
            /\ output = <<>>
            /\ section_citation = NoCitation
            /\ full_citation = NoCitation

\* The loop reads lines[consumed + 1].  With PhysLines, and with the streams
\* of InitNesting, no Division heading is read and every Subtitle and
\* Chapter heading carries its title: lines 291-304 and 338-358 are not
\* entered
NextScript ==
    \/ /\ consumed < Len(lines)
       /\ BlankLine(lines[consumed + 1].raw_line, lines[consumed + 1].page)
    \/ /\ consumed < Len(lines)
       /\ SubtitleMatch(lines[consumed + 1].raw_line, lines[consumed + 1].page)
    \/ /\ consumed < Len(lines)
       /\ ChapterMatch(lines[consumed + 1].raw_line, lines[consumed + 1].page)
    \/ /\ consumed < Len(lines)
       /\ SectionMatch(lines[consumed + 1].raw_line, lines[consumed + 1].page)
    \/ /\ consumed < Len(lines)
       /\ PlainText(lines[consumed + 1].raw_line, lines[consumed + 1].page)
    \/ /\ consumed = Len(lines)
       /\ EndOfStream
    \/ CleanTitle

SpecStream == InitStream /\ [][NextScript]_vars

\* Chapter and section citations of title n
chapter_word(n) == str(n) \o <<".", "4", "2">>
section_word(n) == str(n) \o <<".", "4", "2", ".", "0", "1", "0">>

\* Text of a section: indented text, the 'Sections:' marker and prose that
\* begins like a heading
NestingText ==
    { Raw(2, <<wLand, wUse>>),                 \*   Land Use
      Raw(0, <<wSections>>),                   \* Sections:
      Raw(0, <<wSubtitle, wI, wof>>),          \* Subtitle I of
      Raw(0, <<wchapter, w23_50>>),            \* chapter 23.50
      Raw(0, <<w23_42, wScope>>) }             \* 23.42 Scope.

\* the lines of NestingText that are no heading of title n
PlainFor(n) ==
    {raw \in NestingText : NoHeadingMatch(Scan(n, raw))}

\* page numbers of a stream of m elements
PageRuns(m) ==
    {pg \in [1..m -> FirstPage..MaxPage] : \A i \in 1..(m - 1) : pg[i] <= pg[i + 1]}

\* The streams of title n that are a Subtitle heading with its title, a blank
\* line, a Chapter heading with its title, a Section heading and one or more
\* lines of text
NestingStream(n, ch, body, pg) ==
    [i \in 1..(4 + Len(body)) |->
        [raw_line |-> (<<Raw(0, <<wSubtitle, wI, wCodes>>),
                         None,
                         Raw(0, <<ch, chapter_word(n), wDefs>>),
                         Raw(0, <<section_word(n), wScope>>)>> \o body)[i],
         page |-> pg[i]]]

InitNesting ==
    \E n \in TitleNumbers, k \in 1..MaxPlainLines, ch \in {wChapter, wchapter} :
        \E body \in [1..k -> PlainFor(n)], pg \in PageRuns(4 + k) :
            /\ Begin(n)
            /\ pages = <<>>
            /\ lines = NestingStream(n, ch, body, pg)
            /\ reader = <<>>
            /\ output = <<>>
            /\ section_citation = NoCitation
            /\ full_citation = NoCitation

SpecNesting == InitNesting /\ [][NextScript]_vars

---------------------------------------------------------------------------
(* TitleLocator and main: the PDF is reader.pages, the text of each page    *)
(* what extract_text() returns, None being read as "" (lines 487 and 509)  *)

wTitle == <<"T","i","t","l","e">>
wTITLE == <<"T","I","T","L","E">>
title_lc == <<"t","i","t","l","e">>
w24  == <<"2","4">>
w230 == <<"2","3","0">>

\* Pages of a PDF: title pages of the title sought and of the next, pages
\* that resemble them, pages of text and a page without text
PdfTexts ==
    { <<TextLine(0, <<wTitle, str(DefaultTitle), wLand, wUse>>),  \* Title 23 Land Use
        TextLine(0, <<>>),                                        \*
        TextLine(0, <<wSubtitle, wI, wCodes>>)>>,                 \* Subtitle I Codes
      <<TextLine(0, <<>>),                                        \*
        TextLine(2, <<wTITLE>>),                                  \*   TITLE
        TextLine(0, <<str(DefaultTitle)>>)>>,                     \* 23
      <<TextLine(0, <<wChapter, w23_42, wDefs>>),                 \* Chapter 23.42 Defs
        TextLine(0, <<w23_42_010, wScope>>),                      \* 23.42.010 Scope.
        TextLine(0, <<wLand, wUse>>)>>,                           \* Land Use
      <<TextLine(0, <<wTitle, w24, wGeneral>>)>>,                 \* Title 24 General
      <<TextLine(0, <<wTitle, w230>>)>>,                          \* Title 230
      <<TextLine(0, <<wTitle, w23_42>>)>>,                        \* Title 23.42
      <<TextLine(0, <<wLand, wUse>>),                             \* Land Use
        TextLine(0, <<wTitle, str(DefaultTitle)>>)>>,             \* Title 23
      EmptyText }

\* text.split(): the words of a page text, over all its lines
RECURSIVE words_of(_)
words_of(text) ==
    IF text = <<>> THEN <<>>
    ELSE Head(text).words \o words_of(Tail(text))

\* re.compile(rf"^Title\s+{n}\b", re.IGNORECASE).match(text.strip()): the
\* text begins with the word Title, and the next word, on the same line or
\* a later one, begins with str(n) and goes on, if it does, with a character
\* that is no word character
title_pattern(n, text) ==
    LET w == words_of(text)
    IN  /\ Len(w) >= 2
        /\ lower_word(w[1]) = title_lc
        /\ startswith(w[2], str(n))
        /\ (Len(w[2]) = Len(str(n)) \/ ~isword(w[2][Len(str(n)) + 1]))

\* Mutant of locate_loop: the `break` of line 497 is missing, end_index is
\* the last page that begins with the next title
RECURSIVE locate_loop_no_break(_, _, _, _, _)
locate_loop_no_break(rd, n, next, index, r) ==
    IF index >= Len(rd) THEN r
    ELSE LET text == rd[index + 1]
         IN  IF ~r.found /\ title_pattern(n, text)
             THEN locate_loop_no_break(rd, n, next, index + 1,
                              [r EXCEPT !.found = TRUE, !.start_index = index])
             ELSE IF r.found /\ title_pattern(next, text)
             THEN locate_loop_no_break(rd, n, next, index + 1,
                              [r EXCEPT !.end_index = index])
             ELSE locate_loop_no_break(rd, n, next, index + 1, r)

\* the loop of locate_title_range (lines 486-497) from page `index` on;
\* found is start_index is not None
RECURSIVE locate_loop(_, _, _, _, _)
locate_loop(rd, n, next, index, r) ==
    IF index >= Len(rd) THEN r
    ELSE LET text == rd[index + 1]
         IN  IF ~r.found /\ title_pattern(n, text)
             THEN locate_loop(rd, n, next, index + 1,
                              [r EXCEPT !.found = TRUE, !.start_index = index])
             ELSE IF r.found /\ title_pattern(next, text)
             THEN [r EXCEPT !.end_index = index]
             ELSE locate_loop(rd, n, next, index + 1, r)

\* Mutant of locate_title_range: a title that is not found is taken to
\* begin on the first page instead of raising
locate_title_range_default(rd, n, next) ==
    LET r == locate_loop(rd, n, next, 0,
                         [found |-> FALSE, start_index |-> 0, end_index |-> Len(rd)])
    IN  [r EXCEPT !.found = TRUE]

\* locate_title_range(reader, n, next): found = FALSE stands for the
\* ValueError of line 500
locate_title_range(rd, n, next) ==
    locate_loop(rd, n, next, 0,
                [found |-> FALSE, start_index |-> 0, end_index |-> Len(rd)])

\* extract_pages(reader, start, end)
extract_pages(rd, start, end) ==
    [k \in 1..(end - start) |->
        [page_number |-> (start + k - 1) + 1, text |-> rd[(start + k - 1) + 1]]]

\* lines 556-559 with --next-title left out
next_title_number == title_number + 1

\* The PDFs main is run on
Readers == UNION {[1..k -> PdfTexts] : k \in 1..MaxPdfPages}

\* main has parsed its arguments; nothing is read, built or written yet
InitMain ==
    /\ title_number = DefaultTitle
    /\ heap = <<>>
    /\ current_subtitle = 0
    /\ current_division = 0
    /\ current_chapter = 0
    /\ current_section = 0
    /\ preface_lines = <<>>
    /\ subtitles = <<>>
    /\ page = FirstPage
    /\ consumed = 0
    /\ inp = NoInput
    /\ pc = "main"
    /\ pages = <<>>
    /\ lines = <<>>
    /\ reader = <<>>
    /\ output = <<>>
    /\ section_citation = NoCitation
    /\ full_citation = NoCitation

\* lines 561-575 with the title found: the pages are extracted and the loop
\* of build_title_structure is entered
MainLocated(rd) ==
    /\ pc = "main"
    /\ LET r == locate_title_range(rd, title_number, next_title_number)
       IN  /\ r.found
           /\ pages' = extract_pages(rd, r.start_index, r.end_index)
    /\ reader' = rd
    /\ lines' = iter_lines_with_pages(pages')
    /\ pc' = "loop"
    /\ UNCHANGED <<title_number, heap, current_subtitle, current_division,
                   current_chapter, current_section, preface_lines, subtitles,
                   page, consumed, inp, output, section_citation, full_citation>>

\* lines 561-562 with the title not found: ValueError leaves main
MainNotFound(rd) ==
    /\ pc = "main"
    /\ ~locate_title_range(rd, title_number, next_title_number).found
    /\ reader' = rd
    /\ pc' = "error"
    /\ UNCHANGED <<title_number, heap, current_subtitle, current_division,
                   current_chapter, current_section, preface_lines, subtitles,
                   page, consumed, inp, pages, lines, output,
                   section_citation, full_citation>>

\* lines 576-578: the file is written; of its fields the model keeps number,
\* start_page and end_page (lines 573-574)
MainWrite ==
    /\ pc = "done"
    /\ reader # <<>>
    /\ output' = Append(output, [number |-> title_number,
                                 start_page |-> pages[1].page_number,
                                 end_page |-> pages[Len(pages)].page_number])
    /\ pc' = "written"
    /\ UNCHANGED <<title_number, heap, current_subtitle, current_division,
                   current_chapter, current_section, preface_lines, subtitles,
                   page, consumed, inp, pages, lines, reader,
                   section_citation, full_citation>>

NextMain ==
    \/ \E rd \in Readers : MainLocated(rd)
    \/ \E rd \in Readers : MainNotFound(rd)
    \/ /\ consumed < Len(lines)
       /\ BlankLine(lines[consumed + 1].raw_line, lines[consumed + 1].page)
    \/ /\ consumed < Len(lines)
       /\ SubtitleMatch(lines[consumed + 1].raw_line, lines[consumed + 1].page)
    \/ /\ consumed < Len(lines)
       /\ ChapterMatch(lines[consumed + 1].raw_line, lines[consumed + 1].page)
    \/ /\ consumed < Len(lines)
       /\ SectionMatch(lines[consumed + 1].raw_line, lines[consumed + 1].page)
    \/ /\ consumed < Len(lines)
       /\ PlainText(lines[consumed + 1].raw_line, lines[consumed + 1].page)
    \/ /\ consumed = Len(lines)
       /\ EndOfStream
    \/ CleanTitle
    \/ MainWrite

SpecMain == InitMain /\ [][NextMain]_vars

---------------------------------------------------------------------------
(* The specification of one call of build_title_structure *)

\* The streams the function is called with: every kind of line of RawLines
\* in every order, two elements to a page
CallStreams ==
    UNION {[1..m -> RawLines] : m \in 0..MaxCallLines}

\* the function has not been called yet
InitCall ==
    /\ title_number = DefaultTitle
    /\ heap = <<>>
    /\ current_subtitle = 0
    /\ current_division = 0
    /\ current_chapter = 0
    /\ current_section = 0
    /\ preface_lines = <<>>
    /\ subtitles = <<>>
    /\ page = FirstPage
    /\ consumed = 0
    /\ inp = NoInput
    /\ pc = "call"
    /\ pages = <<>>
    /\ lines = <<>>
    /\ reader = <<>>
    /\ output = <<>>
    /\ section_citation = NoCitation
    /\ full_citation = NoCitation

\* lines 206-220: the call with the stream `stream`; the loop is entered
Call(stream) ==
    /\ pc = "call"
    /\ lines' = [i \in DOMAIN stream |->
                    [raw_line |-> stream[i],
                     page |-> FirstPage + ((i - 1) \div 2)]]
    /\ pc' = "loop"
    /\ UNCHANGED <<title_number, heap, current_subtitle, current_division,
                   current_chapter, current_section, preface_lines, subtitles,
                   page, consumed, inp, pages, reader, output,
                   section_citation, full_citation>>

NextCall ==
    \/ \E stream \in CallStreams : Call(stream)
    \/ /\ consumed < Len(lines)
       /\ BlankLine(lines[consumed + 1].raw_line, lines[consumed + 1].page)
    \/ /\ consumed < Len(lines)
       /\ SubtitleMatch(lines[consumed + 1].raw_line, lines[consumed + 1].page)
    \/ /\ consumed < Len(lines)
       /\ DivisionMatch(lines[consumed + 1].raw_line, lines[consumed + 1].page)
    \/ /\ consumed < Len(lines)
       /\ ChapterMatch(lines[consumed + 1].raw_line, lines[consumed + 1].page)
    \/ /\ consumed < Len(lines)
       /\ SectionMatch(lines[consumed + 1].raw_line, lines[consumed + 1].page)
    \/ /\ consumed < Len(lines)
       /\ DeferredSubtitleTitle(lines[consumed + 1].raw_line, lines[consumed + 1].page)
    \/ /\ consumed < Len(lines)
       /\ DeferredChapterTitle(lines[consumed + 1].raw_line, lines[consumed + 1].page)
    \/ /\ consumed < Len(lines)
       /\ PlainText(lines[consumed + 1].raw_line, lines[consumed + 1].page)
    \/ /\ consumed = Len(lines)
       /\ EndOfStream
    \/ CleanTitle

\* The function runs in one thread and waits for nothing: the statement it
\* is at is executed
SpecCall == InitCall /\ [][NextCall]_vars /\ WF_vars(NextCall)

---------------------------------------------------------------------------
(* CitationBuilder: build_full_citation of build_ground_truth.py *)

\* str.lstrip() and str.rstrip() on characters
RECURSIVE lstrip(_)
lstrip(cs) ==
    IF cs # <<>> /\ Head(cs) = " " THEN lstrip(Tail(cs)) ELSE cs
RECURSIVE rstrip(_)
rstrip(cs) ==
    IF cs # <<>> /\ cs[Len(cs)] = " " THEN rstrip(SubSeq(cs, 1, Len(cs) - 1))
    ELSE cs

\* re.sub(r"^0+", "", cs)
RECURSIVE strip_zeros(_)
strip_zeros(cs) ==
    IF cs # <<>> /\ Head(cs) = "0" THEN strip_zeros(Tail(cs)) ELSE cs

\* the prefixes of line 77
citation_prefixes ==
    { <<"s","m","c">>, title_lc, chapter_lc }

\* Mutant of build_full_citation: .strip() is missing
build_full_citation_raw(n, c) ==
    IF c.is_none \/ c.chars = <<>> THEN NoCitation
    ELSE LET citation == c.chars
         IN  IF \E prefix \in citation_prefixes :
                    startswith(lower_word(citation), prefix)
             THEN Citation(citation)
             ELSE Citation(<<"S","M","C"," ">> \o strip_zeros(citation))

\* build_full_citation(title_number, section_citation)
build_full_citation(n, c) ==
    IF c.is_none \/ c.chars = <<>> THEN NoCitation
    ELSE LET citation == rstrip(lstrip(c.chars))
         IN  IF \E prefix \in citation_prefixes :
                    startswith(lower_word(citation), prefix)
             THEN Citation(citation)
             ELSE Citation(<<"S","M","C"," ">> \o strip_zeros(citation))

\* k times the character ch
Rep(ch, k) == [i \in 1..k |-> ch]

\* Citations as a title file holds them, with and without a prefix, and
\* strings that only resemble a prefix
CitationCores ==
    { <<"2","3",".","4","2",".","0","1","0">>,                  \* 23.42.010
      <<"S","M","C"," ","2","3",".","4","2",".","0","1","0">>,  \* SMC 23.42.010
      <<"s","m","c","2","3">>,                                  \* smc23
      <<"T","i","t","l","e"," ","2","3">>,                      \* Title 23
      <<"C","H","A","P","T","E","R"," ","2","3",".","4","2">>,  \* CHAPTER 23.42
      <<"c","h","a","p","t","e">>,                              \* chapte
      <<"2","3"," ","0","1","0">>,                              \* 23 010
      <<"0">>,                                                  \* 0
      <<>> }                                                    \* (empty)

\* ... behind up to MaxPad blanks and up to MaxPad zeros, before up to
\* MaxPad blanks; or no citation
InitCitation ==
    /\ title_number = DefaultTitle
    /\ heap = <<>>
    /\ current_subtitle = 0
    /\ current_division = 0
    /\ current_chapter = 0
    /\ current_section = 0
    /\ preface_lines = <<>>
    /\ subtitles = <<>>
    /\ page = FirstPage
    /\ consumed = 0
    /\ inp = NoInput
    /\ pc = "cite"
    /\ pages = <<>>
    /\ lines = <<>>
    /\ reader = <<>>
    /\ output = <<>>
    /\ full_citation = NoCitation
    /\ \/ section_citation = NoCitation
       \/ \E a \in 0..MaxPad, b \in 0..MaxPad, c \in 0..MaxPad :
             \E core \in CitationCores :
                section_citation =
                    Citation(Rep(" ", a) \o Rep("0", b) \o core \o Rep(" ", c))

\* the call of lines 63-65
BuildFullCitation ==
    /\ pc = "cite"
    /\ full_citation' = build_full_citation(title_number, section_citation)
    /\ pc' = "cited"
    /\ UNCHANGED <<title_number, heap, current_subtitle, current_division,
                   current_chapter, current_section, preface_lines, subtitles,
                   page, consumed, inp, pages, lines, reader, output,
                   section_citation>>

NextCitation == BuildFullCitation

SpecCitation == InitCitation /\ [][NextCitation]_vars

---------------------------------------------------------------------------
(* C1 *)

\* C1: after every line processed, an open division implies an open
\* subtitle and an open section implies an open chapter.
C1_SlotNesting ==
    /\ current_division # 0 => current_subtitle # 0
    /\ current_section # 0 => current_chapter # 0

\* all four slots are open inside the loop
C1_Witness ==
    /\ pc = "loop"
    /\ current_subtitle # 0
    /\ current_division # 0
    /\ current_chapter # 0
    /\ current_section # 0

---------------------------------------------------------------------------
(* C2 *)

\* C2 as stated: when the stream has ended, all four slots are closed and
\* every Section, Chapter, Division and Subtitle ever opened is in exactly
\* one place of a child list of its parent kind (raw tree).
C2_Original ==
    pc = "finalized" =>
        /\ AllClosed
        /\ \A x \in NodesOf("Section") : Cardinality(SectionSlots(x)) = 1
        /\ \A x \in NodesOf("Chapter") : Cardinality(ChapterSlots(x)) = 1
        /\ \A x \in NodesOf("Division") : Cardinality(DivisionSlots(x)) = 1
        /\ \A x \in NodesOf("Subtitle") : Cardinality(SubtitleSlots(x)) = 1

\* C2 amended: as C2, but a Chapter is in exactly one chapters list only if
\* it was opened while a Subtitle was open; a Chapter opened while no
\* Subtitle was open (an orphaned chapter) is in no chapters list.
C2_Amended ==
    /\ SubtitleStaysOpen
    /\ pc = "finalized" =>
        /\ AllClosed
        /\ \A x \in NodesOf("Section") : Cardinality(SectionSlots(x)) = 1
        /\ \A x \in NodesOf("Chapter") :
               Cardinality(ChapterSlots(x)) =
                   IF OpenedUnderSubtitle(x) THEN 1 ELSE 0
        /\ \A x \in NodesOf("Division") : Cardinality(DivisionSlots(x)) = 1
        /\ \A x \in NodesOf("Subtitle") : Cardinality(SubtitleSlots(x)) = 1

\* the stream ended with a node of every kind created
C2_Witness ==
    /\ pc = "finalized"
    /\ NodesOf("Section") # {}
    /\ NodesOf("Chapter") # {}
    /\ NodesOf("Division") # {}
    /\ NodesOf("Subtitle") # {}

---------------------------------------------------------------------------
(* C3 *)

\* C3: every Chapter of the returned tree is in exactly one place of the
\* chapters lists of all Divisions and Subtitles: one parent, never both a
\* Division and a Subtitle, never twice in one list.
C3_OneParent ==
    pc = "done" =>
        \A c \in ChaptersInTree : Cardinality(ChapterSlots(c)) = 1

\* the returned tree holds a chapter attached to a Subtitle directly and a
\* chapter attached to a Division, both under a subtitle with a division
C3_Witness ==
    /\ pc = "done"
    /\ \E sub \in Range(subtitles) :
          /\ heap[sub].chapters # <<>>
          /\ \E d \in Range(heap[sub].divisions) : heap[d].chapters # <<>>

---------------------------------------------------------------------------
(* C4 *)

\* C4: for a stream with non-decreasing page numbers every node, open or
\* finalized, has start_page <= end_page in every state of the parse and in
\* the final tree.
C4_PageRange ==
    \A i \in Nodes : heap[i].start_page <= heap[i].end_page

\* the final tree holds a section that extends over more than one page
C4_Witness ==
    /\ pc = "done"
    /\ \E i \in NodesOf("Section") : heap[i].start_page < heap[i].end_page

---------------------------------------------------------------------------
(* C5 *)

\* C5: for a stream with non-decreasing page numbers no step of the parse
\* (blank line, title capture, text, heading, end of stream, clean_title)
\* decreases the end_page of a node.
C5_EndPageMonotone ==
    [][\A i \in Nodes : heap'[i].end_page >= heap[i].end_page]_vars

\* a blank line on a later page has just moved the end_page of the
\* innermost open node past its start_page
C5_Witness ==
    /\ pc = "loop"
    /\ inp.raw_line.is_none
    /\ inp.page > FirstPage
    /\ target(Cur) # 0
    /\ heap[target(Cur)].end_page = inp.page
    /\ heap[target(Cur)].start_page < inp.page

---------------------------------------------------------------------------
(* C6 *)

\* C6: the citation of every Section created begins with the decimal string
\* of the title number followed by a dot, and at least two further
\* non-empty dot-separated segments follow.
C6_SectionCitation ==
    \A i \in NodesOf("Section") :
        LET citation == heap[i].citation
        IN  /\ Len(citation) = 1
            /\ startswith(citation[1], str(title_number) \o <<".">>)
            /\ Len(split_dots(citation[1])) >= 3
            /\ \A k \in DOMAIN split_dots(citation[1]) :
                   split_dots(citation[1])[k] # <<>>

\* a Section exists in a parse for a title other than the default
C6_Witness ==
    /\ title_number # DefaultTitle
    /\ NodesOf("Section") # {}

---------------------------------------------------------------------------
(* C7 *)

\* the step finalizes a chapter while neither a division nor a subtitle is
\* open
OrphanFinalized ==
    /\ current_chapter # 0
    /\ current_division = 0
    /\ current_subtitle = 0
    /\ current_chapter' # current_chapter

\* C7: when a Chapter is finalized while neither a Division nor a Subtitle
\* is open, its intro lines are appended in their order to the end of the
\* preface (and the parse goes on: the step exists).
C7_OrphanIntroToPreface ==
    [][OrphanFinalized =>
          preface_lines' = preface_lines \o heap[current_chapter].intro_lines]_vars

\* an orphaned chapter with two different intro lines was finalized behind a
\* preface that was not empty: the preface ends with the two lines
C7_Witness ==
    \E c \in NodesOf("Chapter") :
        LET intro == heap[c].intro_lines
            n == Len(preface_lines)
        IN  /\ c # current_chapter
            /\ ~OpenedUnderSubtitle(c)
            /\ Len(intro) = 2
            /\ intro[1] # intro[2]
            /\ n > 2
            /\ SubSeq(preface_lines, n - 1, n) = intro

---------------------------------------------------------------------------
(* C8 *)

\* the plain-text rules (lines 350-374) applied to line m.line on page p
PlainTextRules(m, p) ==
    IF chapter_title_applies(Cur, m)
    THEN /\ heap' = [heap EXCEPT
                       ![current_chapter].title = m.line,
                       ![current_chapter].end_page = Max(@, p)]
         /\ preface_lines' = preface_lines
    ELSE IF target(Cur) # 0
    THEN /\ heap' = [append_line(heap, target(Cur), m.line) EXCEPT
                       ![target(Cur)].end_page = Max(@, p)]
         /\ preface_lines' = preface_lines
    ELSE /\ heap' = heap
         /\ preface_lines' = Append(preface_lines, m.line)

\* C8: a Division-pattern line read while no Subtitle is open creates no
\* node, leaves the four slots as they are and is handled by the plain-text
\* rules: chapter-title capture, or appended to the innermost open buffer or
\* the preface.
C8_DivisionWithoutSubtitle ==
    [][(/\ LineStep
        /\ ~inp'.raw_line.is_none
        /\ scanned(inp'.raw_line).division_match.matched
        /\ current_subtitle = 0)
       => /\ Len(heap') = Len(heap)
          /\ SlotsUnchanged
          /\ subtitles' = subtitles
          /\ PlainTextRules(scanned(inp'.raw_line), inp'.page)]_vars

\* a Division-pattern line was just read with no Subtitle ever opened, and
\* it became the title of the open chapter
C8_Witness ==
    /\ pc = "loop"
    /\ ~inp.raw_line.is_none
    /\ scanned(inp.raw_line).division_match.matched
    /\ NodesOf("Subtitle") = {}
    /\ NodesOf("Division") = {}
    /\ current_chapter # 0
    /\ heap[current_chapter].title = scanned(inp.raw_line).line

---------------------------------------------------------------------------
(* C9 *)

\* the state and the line read are those of the deferred subtitle title as
\* the claim states them
C9_Case(m) ==
    /\ NoHeadingMatch(m)
    /\ ~m.is_sections
    /\ current_subtitle # 0
    /\ heap[current_subtitle].title = <<>>
    /\ current_chapter = 0

C9_Effect(m, p) ==
    /\ heap'[current_subtitle].title = m.line
    /\ heap'[current_subtitle].end_page = Max(heap[current_subtitle].end_page, p)
    /\ BuffersUnchanged

\* C9 as stated: a plain (non-heading) line other than "sections:" read
\* while the open Subtitle has no title and no Chapter is open becomes the
\* Subtitle's title, extends its end_page, and changes no text buffer.
C9_Original ==
    [][(/\ LineStep
        /\ ~inp'.raw_line.is_none
        /\ C9_Case(scanned(inp'.raw_line)))
       => C9_Effect(scanned(inp'.raw_line), inp'.page)]_vars

\* C9 amended: the same for a plain line that, besides, does not begin with
\* the word "Subtitle" nor with "chapter " (both case-insensitive).
C9_Amended ==
    [][(/\ LineStep
        /\ ~inp'.raw_line.is_none
        /\ C9_Case(scanned(inp'.raw_line))
        /\ ~scanned(inp'.raw_line).subtitle_word
        /\ ~scanned(inp'.raw_line).chapter_space)
       => C9_Effect(scanned(inp'.raw_line), inp'.page)]_vars

\* an indented line on a later page was just captured as the title of the
\* open Subtitle while a Division was open, and no buffer holds text
C9_Witness ==
    /\ pc = "loop"
    /\ ~inp.raw_line.is_none
    /\ inp.raw_line.indent > 0
    /\ current_subtitle # 0
    /\ current_division # 0
    /\ current_chapter = 0
    /\ heap[current_subtitle].title = strip(inp.raw_line)
    /\ heap[current_subtitle].end_page = inp.page
    /\ heap[current_subtitle].start_page < inp.page
    /\ heap[current_subtitle].intro_lines = <<>>
    /\ heap[current_division].intro_lines = <<>>

---------------------------------------------------------------------------
(* C10 *)

\* C10: a plain line other than "sections:" read while the subtitle-title
\* heuristic does not apply, the open Chapter has no title and no Section is
\* open becomes the Chapter's title, extends its end_page, and is appended
\* to no text buffer.
C10_DeferredChapterTitle ==
    [][(/\ LineStep
        /\ ~inp'.raw_line.is_none
        /\ NoHeadingMatch(scanned(inp'.raw_line))
        /\ ~scanned(inp'.raw_line).is_sections
        /\ ~subtitle_title_applies(Cur, scanned(inp'.raw_line))
        /\ current_chapter # 0
        /\ heap[current_chapter].title = <<>>
        /\ current_section = 0)
       => /\ heap'[current_chapter].title = scanned(inp'.raw_line).line
          /\ heap'[current_chapter].end_page =
                 Max(heap[current_chapter].end_page, inp'.page)
          /\ BuffersUnchanged]_vars

\* a line that begins like a chapter heading was just captured, on a later
\* page, as the title of the open Chapter under a Subtitle without title
C10_Witness ==
    /\ pc = "loop"
    /\ ~inp.raw_line.is_none
    /\ scanned(inp.raw_line).chapter_space
    /\ NoHeadingMatch(scanned(inp.raw_line))
    /\ current_subtitle # 0
    /\ heap[current_subtitle].title = <<>>
    /\ current_chapter # 0
    /\ heap[current_chapter].title = strip(inp.raw_line)
    /\ heap[current_chapter].intro_lines = <<>>
    /\ heap[current_chapter].start_page < heap[current_chapter].end_page


---------------------------------------------------------------------------
(* Vocabulary of the deduplication properties *)

\* this step is the call of clean_title: the unprimed state holds the raw
\* tree, the primed state the cleaned one
CleanStep == pc = "finalized" /\ pc' = "done"

\* the places of list whose section has citation cit
Cands(h, list, cit) == {i \in DOMAIN list : h[list[i]].citation = cit}

\* the places of list whose subtitle has number num, case-insensitively
SubCands(h, list, num) ==
    {i \in DOMAIN list : lower(h[list[i]].number) = lower(num)}

NoRepeats(list) == \A i, j \in DOMAIN list : list[i] = list[j] => i = j

\* the lists with the elements of list in another order
Perms(list) ==
    {[i \in DOMAIN list |-> list[f[i]]] :
        f \in {g \in [DOMAIN list -> DOMAIN list] :
                  \A a, b \in DOMAIN list : g[a] = g[b] => a = b}}

\* a node with its children in place of the references to them
ChapterValue(h, c) ==
    [h[c] EXCEPT !.sections = [i \in DOMAIN h[c].sections |-> h[h[c].sections[i]]]]
DivisionValue(h, d) ==
    [h[d] EXCEPT !.chapters =
        [i \in DOMAIN h[d].chapters |-> ChapterValue(h, h[d].chapters[i])]]
SubtitleValue(h, x) ==
    [h[x] EXCEPT
       !.divisions = [i \in DOMAIN h[x].divisions |->
                         DivisionValue(h, h[x].divisions[i])],
       !.chapters = [i \in DOMAIN h[x].chapters |->
                        ChapterValue(h, h[x].chapters[i])]]

\* after clean_title: the sections and subtitles that lost to a duplicate
\* (every Section opened was put in its chapter's list, every Subtitle in
\* title.subtitles, when the stream ended)
LostSections == {x \in NodesOf("Section") : SectionSlots(x) = {}}
LostSubtitles == {x \in NodesOf("Subtitle") : SubtitleSlots(x) = {}}

---------------------------------------------------------------------------
(* C11 *)

\* C11: when a chapter of the tree holds exactly two sections with some
\* citation, one without a non-blank body line and one with, in either order,
\* clean_title leaves exactly one section with that citation in the chapter
\* and it is the populated one, unchanged
C11_PopulatedBeatsEmpty ==
    [][CleanStep =>
         \A c \in ChaptersInTree : \A i, j \in DOMAIN heap[c].sections :
            LET raw == heap[c].sections
                cit == heap[raw[i]].citation
                out == heap'[c].sections
            IN  (/\ Cands(heap, raw, cit) = {i, j}
                 /\ i # j
                 /\ ~has_body(heap[raw[i]])
                 /\ has_body(heap[raw[j]]))
                => /\ \E k \in DOMAIN out : Cands(heap', out, cit) = {k}
                   /\ \A k \in Cands(heap', out, cit) : out[k] = raw[j]
                   /\ heap'[raw[j]] = heap[raw[j]]]_vars

\* the populated section was discovered first and the empty one, which lost,
\* after it
C11_Witness ==
    /\ pc = "done"
    /\ \E c \in ChaptersInTree : \E y \in LostSections :
          /\ heap[c].sections # <<>>
          /\ LET x == heap[c].sections[1]
             IN  /\ c < x /\ x < y
                 /\ \A z \in Nodes : (c < z /\ z < y) => heap[z].kind = "Section"
                 /\ heap[x].citation = heap[y].citation
                 /\ has_body(heap[x])
                 /\ ~has_body(heap[y])
                 /\ heap[y].end_page >= heap[x].end_page

---------------------------------------------------------------------------
(* C12 *)

\* C12: when all the sections of a chapter that share a citation are equally
\* empty or equally non-empty, the survivor has at least as many body lines
\* as each of them, and an end_page at least that of each of them that has as
\* many body lines as it
C12_MoreBodyLinesWins ==
    [][CleanStep =>
         \A c \in ChaptersInTree : \A k \in DOMAIN heap'[c].sections :
            LET raw == heap[c].sections
                s == heap'[c].sections[k]
                group == {raw[i] : i \in Cands(heap, raw, heap[s].citation)}
            IN  (\A x, y \in group : has_body(heap[x]) = has_body(heap[y]))
                => \A x \in group :
                      /\ Len(heap[s].body_lines) >= Len(heap[x].body_lines)
                      /\ Len(heap[s].body_lines) = Len(heap[x].body_lines)
                            => heap[s].end_page >= heap[x].end_page]_vars

---------------------------------------------------------------------------
(* C13 *)

\* C13: for every raw subtitle, exactly one subtitle with its number
\* (case-insensitively) is left by clean_title; it is one of the raw
\* subtitles with that number, its score is at least the raw subtitle's, and
\* its end_page is at least the raw subtitle's when the scores are equal
C13_SubtitleMaxScore ==
    [][CleanStep =>
         \A j \in DOMAIN subtitles :
            LET num == heap[subtitles[j]].number
                left == SubCands(heap', subtitles', num)
            IN  /\ \E k \in DOMAIN subtitles' : left = {k}
                /\ \A k \in left :
                      LET s == subtitles'[k]
                      IN  /\ s \in {subtitles[i] :
                                      i \in SubCands(heap, subtitles, num)}
                          /\ weight(heap, heap[s]) >= weight(heap, heap[subtitles[j]])
                          /\ weight(heap, heap[s]) = weight(heap, heap[subtitles[j]])
                                => heap[s].end_page >= heap[subtitles[j]].end_page]_vars

\* a later subtitle with a lower score and a later end_page lost to an
\* earlier one that holds a division with a chapter
C13_Witness ==
    /\ pc = "done"
    /\ \E s \in Range(subtitles) : \E x \in LostSubtitles :
          /\ lower(heap[x].number) = lower(heap[s].number)
          /\ s < x
          /\ weight(heap, heap[x]) < weight(heap, heap[s])
          /\ heap[x].end_page > heap[s].end_page
          /\ sum_chapters(heap, heap[s].divisions) > 0

---------------------------------------------------------------------------
(* C14 *)

\* C14: after clean_title the subtitles are in non-decreasing order of
\* start_page
C14_SortedByStartPage ==
    pc = "done" =>
        \A i, j \in DOMAIN subtitles :
            i < j => heap[subtitles[i]].start_page <= heap[subtitles[j]].start_page

\* the survivors are not in the order in which they were discovered: a later
\* duplicate took the place of the first subtitle, and the sort moved it
C14_Witness ==
    /\ pc = "done"
    /\ \E i, j \in DOMAIN subtitles :
          /\ i < j
          /\ subtitles[i] < subtitles[j]
          /\ heap[subtitles[i]].start_page < heap[subtitles[j]].start_page
          /\ \E x \in LostSubtitles :
                /\ x < subtitles[i]
                /\ lower(heap[x].number) = lower(heap[subtitles[j]].number)

---------------------------------------------------------------------------
(* C15 *)

\* C15: whatever the order of the sections of a chapter, and whatever the
\* order of the subtitles, the same candidates survive clean_title
C15_OrderIndependent ==
    [][CleanStep =>
         /\ \A c \in ChaptersInTree : \A perm \in Perms(heap[c].sections) :
               {heap[x] : x \in Range(clean_chapter_loop(heap, perm, <<>>))}
                   = {heap'[x] : x \in Range(heap'[c].sections)}
         /\ \A perm \in Perms(subtitles) :
               {SubtitleValue(heap', x) :
                    x \in Range(clean_subtitles_loop(heap', perm, <<>>))}
                   = {SubtitleValue(heap', x) : x \in Range(subtitles')}]_vars

---------------------------------------------------------------------------
(* C16 *)

---------------------------------------------------------------------------
(* C17 *)

\* the pages without the lines that match the footer-stamp pattern
without_footers(pgs) ==
    [k \in DOMAIN pgs |->
        [pgs[k] EXCEPT !.text = SelectSeq(@, LAMBDA l : ~FOOTER_PATTERN(l.words))]]

\* C17: nothing is emitted for a line of a page that matches the footer-stamp
\* pattern: every element the loop reads is the element that the pages
\* without those lines yield at that place, and the stream ends where theirs
\* does
C17_FooterDropped ==
    [][LET clean == iter_lines_with_pages(without_footers(pages))
       IN  /\ LineStep => /\ consumed' <= Len(clean)
                          /\ inp' = clean[consumed']
           /\ (pc = "loop" /\ pc' = "finalized") => consumed = Len(clean)]_vars

---------------------------------------------------------------------------
(* C18 *)

\* C18: no element of the stream comes from a page whose text is empty: the
\* loop reads no element with the page number of such a page
C18_EmptyPageSilent ==
    [][LineStep =>
         \A k \in DOMAIN pages :
            pages[k].text = EmptyText => inp'.page # pages[k].page_number]_vars

---------------------------------------------------------------------------
(* C19 *)

\* C19: the stream [Subtitle heading with title, blank, Chapter heading with
\* title, Section heading, text lines] of title n yields one Subtitle with the
\* number and title of its heading and no Division, holding one Chapter with
\* the citation and title of its heading, holding one Section with the
\* citation and heading of its heading and the text lines, stripped, as body;
\* nothing else is built and the preface is empty
C19_BasicNesting ==
    pc = "done" =>
        LET sub == lines[1]
            ch == lines[3]
            sec == lines[4]
            body == Rest(lines, 5)
        IN  /\ Len(subtitles) = 1
            /\ Cardinality(Nodes) = 3
            /\ preface_lines = <<>>
            /\ LET s == heap[subtitles[1]]
               IN  /\ s.kind = "Subtitle"
                   /\ s.number = <<wSubtitle, sub.raw_line.words[2]>>
                   /\ s.title = Rest(sub.raw_line.words, 3)
                   /\ s.start_page = sub.page
                   /\ s.divisions = <<>>
                   /\ Len(s.chapters) = 1
                   /\ LET c == heap[s.chapters[1]]
                      IN  /\ c.kind = "Chapter"
                          /\ c.citation = <<ch.raw_line.words[2]>>
                          /\ c.title = Rest(ch.raw_line.words, 3)
                          /\ c.start_page = ch.page
                          /\ c.intro_lines = <<>>
                          /\ Len(c.sections) = 1
                          /\ LET x == heap[c.sections[1]]
                             IN  /\ x.kind = "Section"
                                 /\ x.citation = <<sec.raw_line.words[1]>>
                                 /\ x.heading = Rest(sec.raw_line.words, 2)
                                 /\ x.start_page = sec.page
                                 /\ x.end_page = body[Len(body)].page
                                 /\ x.body_lines =
                                       [i \in DOMAIN body |-> body[i].raw_line.words]

\* a stream of title 22 with a lower-case chapter heading and several text
\* lines, the last on a later page than the Subtitle heading, was parsed
C19_Witness ==
    /\ pc = "done"
    /\ title_number # DefaultTitle
    /\ Len(lines) > 5
    /\ lines[3].raw_line.words[1] = wchapter
    /\ lines[Len(lines)].page > lines[1].page
    /\ Len(subtitles) = 1

---------------------------------------------------------------------------
(* C21 *)

\* the three kinds of step of build_title_structure: an iteration of the
\* loop that reads the next element of the stream and none other, the
\* finalization once the stream is exhausted, the clean_title pass after it
C21_Step ==
    \/ /\ LineStep
       /\ consumed < Len(lines)
       /\ inp' = lines[consumed + 1]
    \/ /\ pc = "loop" /\ pc' = "finalized"
       /\ consumed = Len(lines)
       /\ consumed' = consumed
    \/ /\ pc = "finalized" /\ pc' = "done"
       /\ consumed' = consumed

\* C21: for every finite stream build_title_structure terminates: each of
\* its steps is an iteration that consumes the next element of the stream,
\* the one finalization at the end of the stream or the one clean_title pass
\* after it, and once entered the function returns, every element consumed.
C21_Terminates ==
    /\ [][(pc \in {"loop", "finalized"}) => C21_Step]_vars
    /\ (pc = "loop") ~> (pc = "done" /\ consumed = Len(lines))

\* the function has returned from a stream of MaxCallLines elements, a
\* heading first
C21_Witness ==
    /\ pc = "done"
    /\ Len(lines) = MaxCallLines
    /\ consumed = Len(lines)
    /\ Nodes # {}

---------------------------------------------------------------------------
(* C22 *)

\* the citation starts, whatever the case of its letters, with 'smc',
\* 'title' or 'chapter'
HasPrefix(cs) ==
    \E prefix \in citation_prefixes :
        /\ Len(cs) >= Len(prefix)
        /\ \A k \in DOMAIN prefix : lower_char(cs[k]) = prefix[k]

\* cs without the characters ch it begins with
WithoutLeading(ch, cs) ==
    LET k == CHOOSE n \in 0..Len(cs) :
                 /\ \A j \in 1..n : cs[j] = ch
                 /\ n < Len(cs) => cs[n + 1] # ch
    IN  SubSeq(cs, k + 1, Len(cs))

\* cs without the characters ch it ends with
WithoutTrailing(ch, cs) ==
    LET k == CHOOSE n \in 0..Len(cs) :
                 /\ \A j \in (n + 1)..Len(cs) : cs[j] = ch
                 /\ n > 0 => cs[n] # ch
    IN  SubSeq(cs, 1, k)

SMC_ == <<"S","M","C"," ">>

\* C22 as stated: an absent citation gives an absent result; a citation
\* that starts (case-insensitively) with 'smc', 'title' or 'chapter' is
\* returned unchanged; any other citation is returned with its leading
\* zeros removed and prefixed with 'SMC '.
C22_Original ==
    pc = "cited" =>
        IF section_citation.is_none
        THEN full_citation = NoCitation
        ELSE IF HasPrefix(section_citation.chars)
        THEN full_citation = section_citation
        ELSE full_citation =
                 Citation(SMC_ \o WithoutLeading("0", section_citation.chars))

\* C22 amended: an absent or empty citation gives an absent result; any
\* other citation is first stripped of the blanks around it, and what is
\* left is returned as it is if it starts (case-insensitively) with 'smc',
\* 'title' or 'chapter', and otherwise with its leading zeros removed and
\* prefixed with 'SMC '.
C22_Amended ==
    pc = "cited" =>
        IF section_citation.is_none \/ section_citation.chars = <<>>
        THEN full_citation = NoCitation
        ELSE LET stripped == WithoutTrailing(" ",
                                 WithoutLeading(" ", section_citation.chars))
             IN  IF HasPrefix(stripped)
                 THEN full_citation = Citation(stripped)
                 ELSE full_citation =
                          Citation(SMC_ \o WithoutLeading("0", stripped))

\* a citation with blanks on both sides and leading zeros was given its
\* prefix, and its inner blank and trailing zero were kept
C22_Witness ==
    /\ pc = "cited"
    /\ ~section_citation.is_none
    /\ Len(section_citation.chars) >= 3
    /\ SubSeq(section_citation.chars, 1, 2) = <<" ", "0">>
    /\ section_citation.chars[Len(section_citation.chars)] = " "
    /\ full_citation = Citation(SMC_ \o <<"2","3"," ","0","1","0">>)


---------------------------------------------------------------------------
(* C23 *)

\* no page of the PDF rd begins with 'Title <n>'
NoTitlePage(rd, n) == \A k \in DOMAIN rd : ~title_pattern(n, rd[k])

\* nothing is built and nothing is written
NothingDone ==
    /\ heap = <<>>
    /\ subtitles = <<>>
    /\ preface_lines = <<>>
    /\ AllClosed
    /\ pages = <<>>
    /\ lines = <<>>
    /\ consumed = 0
    /\ output = <<>>

\* C23: when no page of the PDF read begins with 'Title <N>', whether or
\* not one begins with the next title's number, locate_title_range raises:
\* main ends in the error with nothing built and nothing written, and no
\* step follows the error.
C23_NotFoundAborts ==
    [][/\ (pc = "main" /\ NoTitlePage(reader', title_number))
           => (pc' = "error" /\ NothingDone')
       /\ pc # "error"]_vars

\* main ended in the error on a PDF of MaxPdfPages pages of which one begins
\* with the next title's number and another with 'Title 230'
C23_Witness ==
    /\ pc = "error"
    /\ Len(reader) = MaxPdfPages
    /\ \E k \in DOMAIN reader : title_pattern(next_title_number, reader[k])
    /\ \E k \in DOMAIN reader : reader[k] = <<TextLine(0, <<wTitle, w230>>)>>
    /\ NothingDone


---------------------------------------------------------------------------
(* C24 *)

\* C24: a line that matches the Subtitle, Division, Chapter or Section
\* pattern never becomes the title of a Subtitle that is already open: the
\* step that reads it leaves the title of every Subtitle as it was (so a
\* Section-pattern line read while a Subtitle without title is open and no
\* Chapter is open does not become that Subtitle's title).
C24_NoHeadingAsTitle ==
    [][(/\ LineStep
        /\ ~inp'.raw_line.is_none
        /\ ~NoHeadingMatch(scanned(inp'.raw_line)))
       => \A x \in NodesOf("Subtitle") : heap'[x].title = heap[x].title]_vars

---------------------------------------------------------------------------
(* C25 *)

\* the step reads a line the Subtitle pattern matches
SubtitleStep ==
    /\ LineStep
    /\ ~inp'.raw_line.is_none
    /\ scanned(inp'.raw_line).subtitle_info.matched

\* the step appends x to list `after`, which was `before`
Appended(before, after, x) == after = Append(before, x)

\* C25: a Subtitle match on page p attaches the open Section to the open
\* Chapter, the open Chapter to the open Division, else to the open Subtitle,
\* the open Division to the open Subtitle and the open Subtitle to the
\* document's subtitles (whichever are open); after the step a new Subtitle
\* is open with start_page = end_page = p, no intro lines, no divisions and
\* no chapters, and the division, chapter and section slots are closed.
C25_SubtitleMatch ==
    [][SubtitleStep =>
        /\ current_section # 0 =>
               /\ current_chapter # 0
               /\ Appended(heap[current_chapter].sections,
                           heap'[current_chapter].sections, current_section)
        /\ (current_chapter # 0 /\ current_division # 0) =>
               /\ Appended(heap[current_division].chapters,
                           heap'[current_division].chapters, current_chapter)
               /\ heap'[current_subtitle].chapters = heap[current_subtitle].chapters
        /\ (current_chapter # 0 /\ current_division = 0 /\ current_subtitle # 0) =>
               Appended(heap[current_subtitle].chapters,
                        heap'[current_subtitle].chapters, current_chapter)
        /\ current_division # 0 =>
               /\ current_subtitle # 0
               /\ Appended(heap[current_subtitle].divisions,
                           heap'[current_subtitle].divisions, current_division)
        /\ subtitles' = IF current_subtitle # 0
                        THEN Append(subtitles, current_subtitle)
                        ELSE subtitles
        /\ current_subtitle' \in DOMAIN heap' \ Nodes
        /\ heap'[current_subtitle'].kind = "Subtitle"
        /\ heap'[current_subtitle'].start_page = inp'.page
        /\ heap'[current_subtitle'].end_page = inp'.page
        /\ heap'[current_subtitle'].intro_lines = <<>>
        /\ heap'[current_subtitle'].divisions = <<>>
        /\ heap'[current_subtitle'].chapters = <<>>
        /\ current_division' = 0
        /\ current_chapter' = 0
        /\ current_section' = 0]_vars

\* a Subtitle heading on a later page has just closed a Subtitle with a
\* Division and a Chapter under it: the Chapter is in the Division, the
\* Division in the previous Subtitle, that Subtitle in the document
C25_Witness ==
    /\ pc = "loop"
    /\ ~inp.raw_line.is_none
    /\ scanned(inp.raw_line).subtitle_info.matched
    /\ inp.page > FirstPage
    /\ heap[current_subtitle].start_page = inp.page
    /\ \E j \in DOMAIN subtitles :
          \E d \in Range(heap[subtitles[j]].divisions) : heap[d].chapters # <<>>

---------------------------------------------------------------------------
(* C26 *)

\* the step reads a line the Division pattern matches, and not the Subtitle
\* pattern, while a Subtitle is open
DivisionStep ==
    /\ LineStep
    /\ ~inp'.raw_line.is_none
    /\ ~scanned(inp'.raw_line).subtitle_info.matched
    /\ scanned(inp'.raw_line).division_match.matched
    /\ current_subtitle # 0

\* C26: a Division match on page p while a Subtitle is open attaches the
\* open Section to the open Chapter, the open Chapter to the open Division
\* if there is one and to the Subtitle otherwise, and the open Division to
\* the Subtitle's divisions; after the step a new Division is open with
\* start_page = end_page = p, the chapter and section slots are closed and
\* the subtitle slot is as before.
C26_DivisionMatch ==
    [][DivisionStep =>
        /\ current_section # 0 =>
               /\ current_chapter # 0
               /\ Appended(heap[current_chapter].sections,
                           heap'[current_chapter].sections, current_section)
        /\ (current_chapter # 0 /\ current_division = 0) =>
               Appended(heap[current_subtitle].chapters,
                        heap'[current_subtitle].chapters, current_chapter)
        /\ (current_chapter # 0 /\ current_division # 0) =>
               /\ Appended(heap[current_division].chapters,
                           heap'[current_division].chapters, current_chapter)
               /\ heap'[current_subtitle].chapters = heap[current_subtitle].chapters
        /\ heap'[current_subtitle].divisions =
               IF current_division # 0
               THEN Append(heap[current_subtitle].divisions, current_division)
               ELSE heap[current_subtitle].divisions
        /\ current_division' \in DOMAIN heap' \ Nodes
        /\ heap'[current_division'].kind = "Division"
        /\ heap'[current_division'].start_page = inp'.page
        /\ heap'[current_division'].end_page = inp'.page
        /\ current_chapter' = 0
        /\ current_section' = 0
        /\ current_subtitle' = current_subtitle]_vars

\* a Division heading has just closed a Division that holds a Chapter: the
\* closed Division is in the divisions of the Subtitle, which is still open
C26_Witness ==
    /\ pc = "loop"
    /\ ~inp.raw_line.is_none
    /\ scanned(inp.raw_line).division_match.matched
    /\ current_division # 0
    /\ heap[current_division].start_page = inp.page
    /\ heap[current_division].chapters = <<>>
    /\ current_chapter = 0
    /\ \E d \in Range(heap[current_subtitle].divisions) : heap[d].chapters # <<>>

---------------------------------------------------------------------------
(* C27 *)

\* the step reads a line one of the two Chapter patterns matches, and that
\* is taken neither as a Subtitle nor as a Division heading
ChapterStep ==
    /\ LineStep
    /\ ~inp'.raw_line.is_none
    /\ ~scanned(inp'.raw_line).subtitle_info.matched
    /\ ~(scanned(inp'.raw_line).division_match.matched /\ current_subtitle # 0)
    /\ \/ scanned(inp'.raw_line).chapter_match.matched
       \/ scanned(inp'.raw_line).chapter_short_match.matched

\* C27: a Chapter match (either pattern) on page p attaches the open Section
\* to the open Chapter and the open Chapter to the open Division, else to
\* the open Subtitle, else appends its intro lines to the preface; after the
\* step a new Chapter is open with start_page = end_page = p, the section
\* slot is closed, the subtitle and division slots are as before.
C27_ChapterMatch ==
    [][ChapterStep =>
        /\ current_section # 0 =>
               /\ current_chapter # 0
               /\ Appended(heap[current_chapter].sections,
                           heap'[current_chapter].sections, current_section)
        /\ (current_chapter # 0 /\ current_division # 0) =>
               Appended(heap[current_division].chapters,
                        heap'[current_division].chapters, current_chapter)
        /\ current_subtitle # 0 =>
               heap'[current_subtitle].chapters =
                   IF current_chapter # 0 /\ current_division = 0
                   THEN Append(heap[current_subtitle].chapters, current_chapter)
                   ELSE heap[current_subtitle].chapters
        /\ preface_lines' =
               IF current_chapter # 0 /\ current_division = 0 /\ current_subtitle = 0
               THEN preface_lines \o heap[current_chapter].intro_lines
               ELSE preface_lines
        /\ current_chapter' \in DOMAIN heap' \ Nodes
        /\ heap'[current_chapter'].kind = "Chapter"
        /\ heap'[current_chapter'].start_page = inp'.page
        /\ heap'[current_chapter'].end_page = inp'.page
        /\ current_section' = 0
        /\ current_subtitle' = current_subtitle
        /\ current_division' = current_division]_vars

\* a Chapter heading without title (the short pattern only) has just
\* closed a Chapter that holds a Section: the closed Chapter is in the
\* chapters of the open Subtitle
C27_Witness ==
    /\ pc = "loop"
    /\ ~inp.raw_line.is_none
    /\ scanned(inp.raw_line).chapter_short_match.matched
    /\ ~scanned(inp.raw_line).chapter_match.matched
    /\ current_chapter # 0
    /\ heap[current_chapter].start_page = inp.page
    /\ heap[current_chapter].sections = <<>>
    /\ current_section = 0
    /\ current_subtitle # 0
    /\ \E c \in Range(heap[current_subtitle].chapters) : heap[c].sections # <<>>

---------------------------------------------------------------------------
(* C28 *)

\* the step reads a line the Section pattern matches, and that is taken
\* neither as a Subtitle, nor as a Division, nor as a Chapter heading
SectionLineStep ==
    /\ LineStep
    /\ ~inp'.raw_line.is_none
    /\ ~scanned(inp'.raw_line).subtitle_info.matched
    /\ ~(scanned(inp'.raw_line).division_match.matched /\ current_subtitle # 0)
    /\ ~scanned(inp'.raw_line).chapter_match.matched
    /\ ~scanned(inp'.raw_line).chapter_short_match.matched
    /\ scanned(inp'.raw_line).section_match.matched

\* C28: a Section match on page p while a Chapter is open appends the open
\* Section, if any, to that Chapter's sections and opens a new Section with
\* start_page = end_page = p and an empty body, the subtitle, division and
\* chapter slots staying as they are; while no Chapter is open a
\* Section-pattern line creates no Section node and opens no Section.
C28_SectionMatch ==
    [][SectionLineStep =>
        IF current_chapter # 0
        THEN /\ heap'[current_chapter].sections =
                    IF current_section # 0
                    THEN Append(heap[current_chapter].sections, current_section)
                    ELSE heap[current_chapter].sections
             /\ current_section' \in DOMAIN heap' \ Nodes
             /\ heap'[current_section'].kind = "Section"
             /\ heap'[current_section'].start_page = inp'.page
             /\ heap'[current_section'].end_page = inp'.page
             /\ heap'[current_section'].body_lines = <<>>
             /\ current_subtitle' = current_subtitle
             /\ current_division' = current_division
             /\ current_chapter' = current_chapter
        ELSE /\ \A i \in DOMAIN heap' \ Nodes : heap'[i].kind # "Section"
             /\ current_section' = 0]_vars

\* a Section heading on a later page has just closed a Section: the closed
\* Section is in the sections of the Chapter, which is still open
C28_Witness ==
    /\ pc = "loop"
    /\ ~inp.raw_line.is_none
    /\ scanned(inp.raw_line).section_match.matched
    /\ inp.page > FirstPage
    /\ current_section # 0
    /\ heap[current_section].start_page = inp.page
    /\ heap[current_section].body_lines = <<>>
    /\ current_chapter # 0
    /\ heap[current_chapter].sections # <<>>

---------------------------------------------------------------------------
(* C29 *)

\* the innermost open node: section, else chapter, else division, else
\* subtitle; 0 when no slot is occupied
Innermost ==
    IF current_section # 0 THEN current_section
    ELSE IF current_chapter # 0 THEN current_chapter
    ELSE IF current_division # 0 THEN current_division
    ELSE current_subtitle

\* node with text appended to its text buffer and end_page e
Extended(node, text, e) ==
    IF node.kind = "Section"
    THEN [node EXCEPT !.body_lines = Append(@, text), !.end_page = e]
    ELSE [node EXCEPT !.intro_lines = Append(@, text), !.end_page = e]

\* C29: a blank line on page p appends exactly one blank marker to the text
\* buffer of the innermost open node and sets that node's end_page to p, or
\* appends the marker to the preface when no node is open; no slot, no
\* other field of that node, no other node, not the preface (when a node is
\* open) and not the document's subtitles change.
C29_BlankLine ==
    [][(LineStep /\ inp'.raw_line.is_none) =>
        /\ DOMAIN heap' = Nodes
        /\ \A i \in Nodes \ {Innermost} : heap'[i] = heap[i]
        /\ IF Innermost # 0
           THEN /\ heap'[Innermost] = Extended(heap[Innermost], <<>>, inp'.page)
                /\ preface_lines' = preface_lines
           ELSE preface_lines' = Append(preface_lines, <<>>)
        /\ SlotsUnchanged
        /\ subtitles' = subtitles]_vars

\* a blank line on a later page has just been appended to the body of the
\* open Section, whose end_page has moved from its start_page to that page
C29_Witness ==
    /\ pc = "loop"
    /\ inp.raw_line.is_none
    /\ current_section # 0
    /\ heap[current_section].body_lines = <<<<>>>>
    /\ heap[current_section].start_page < inp.page
    /\ heap[current_section].end_page = inp.page
    /\ heap[current_chapter].end_page < inp.page

---------------------------------------------------------------------------
(* C30 *)

\* the step reads a line that no heading branch takes and to which neither
\* deferred-title heuristic applies
PlainStep ==
    /\ LineStep
    /\ ~inp'.raw_line.is_none
    /\ ~scanned(inp'.raw_line).subtitle_info.matched
    /\ ~division_applies(Cur, scanned(inp'.raw_line))
    /\ ~scanned(inp'.raw_line).chapter_match.matched
    /\ ~scanned(inp'.raw_line).chapter_short_match.matched
    /\ ~section_applies(Cur, scanned(inp'.raw_line))
    /\ ~subtitle_title_applies(Cur, scanned(inp'.raw_line))
    /\ ~chapter_title_applies(Cur, scanned(inp'.raw_line))

\* C30: a plain line on page p to which neither deferred-title heuristic
\* applies is appended (its text without the surrounding white space) to
\* the text buffer of the innermost open node, whose end_page becomes the
\* maximum of its old value and p, or to the preface when no node is open;
\* no slot, no other field of that node, no other node, not the preface
\* (when a node is open) and not the document's subtitles change.
C30_PlainLine ==
    [][PlainStep =>
        /\ DOMAIN heap' = Nodes
        /\ \A i \in Nodes \ {Innermost} : heap'[i] = heap[i]
        /\ IF Innermost # 0
           THEN /\ heap'[Innermost] =
                       Extended(heap[Innermost], scanned(inp'.raw_line).line,
                                Max(heap[Innermost].end_page, inp'.page))
                /\ preface_lines' = preface_lines
           ELSE preface_lines' = Append(preface_lines, scanned(inp'.raw_line).line)
        /\ SlotsUnchanged
        /\ subtitles' = subtitles]_vars

\* the line 'Sections:' on a later page has just been appended to the intro
\* lines of an open Division under a Subtitle without title: the Subtitle
\* has neither the line nor the page
C30_Witness ==
    /\ pc = "loop"
    /\ ~inp.raw_line.is_none
    /\ scanned(inp.raw_line).is_sections
    /\ current_division # 0
    /\ current_chapter = 0
    /\ heap[current_division].intro_lines = <<scanned(inp.raw_line).line>>
    /\ heap[current_division].start_page < inp.page
    /\ heap[current_division].end_page = inp.page
    /\ heap[current_subtitle].title = <<>>
    /\ heap[current_subtitle].intro_lines = <<>>
    /\ heap[current_subtitle].end_page < inp.page

---------------------------------------------------------------------------
(* C31 *)

\* references are handed out in order of creation: a list of references is
\* in order of discovery iff it is increasing
InDiscoveryOrder(list) ==
    \A i, j \in DOMAIN list : i < j => list[i] < list[j]

NonDecreasingStartPage(list) ==
    \A i, j \in DOMAIN list : i < j => heap[list[i]].start_page <= heap[list[j]].start_page

\* every child list below the document's subtitles is in order of discovery
ChildListsInDiscoveryOrder ==
    /\ \A x \in NodesOf("Subtitle") :
           InDiscoveryOrder(heap[x].divisions) /\ InDiscoveryOrder(heap[x].chapters)
    /\ \A x \in NodesOf("Division") : InDiscoveryOrder(heap[x].chapters)
    /\ \A x \in NodesOf("Chapter") : InDiscoveryOrder(heap[x].sections)

\* C31, raw tree: when the stream has ended every child list, the
\* document's subtitles included, is in order of heading discovery.
C31_RawOrder ==
    pc = "finalized" => (InDiscoveryOrder(subtitles) /\ ChildListsInDiscoveryOrder)

\* C31: sibling order is document order: in the raw tree every child list
\* is in order of heading discovery, and after clean_title the Sections of
\* every Chapter (like the Chapters and Divisions) are still in order of
\* discovery, with non-decreasing start_page; only the document's subtitles
\* are reordered.
C31_DocumentOrder ==
    /\ C31_RawOrder
    /\ pc = "done" =>
          /\ ChildListsInDiscoveryOrder
          /\ \A x \in NodesOf("Chapter") : NonDecreasingStartPage(heap[x].sections)

---------------------------------------------------------------------------
(* C32 *)

\* the least element of a non-empty set of numbers
Least(S) == CHOOSE k \in S : \A j \in S : k <= j

\* the indices (from 0) of the pages of the PDF that begin with Title n
PagesOfTitle(n) ==
    {k \in 0..(Len(reader) - 1) : title_pattern(n, reader[k + 1])}

\* C32: when locate_title_range has succeeded on a PDF of n pages, start is
\* the index of the first page that begins with 'Title <N>' and end the
\* index of the first page after start that begins with the next title, or
\* n; 0 <= start < end <= n, and the pages extracted are the pages
\* start .. end - 1 of the PDF, numbered start + 1 .. end: a non-empty list
\* with strictly increasing page numbers.
C32_TitleRange ==
    (reader # <<>> /\ pc # "error") =>
        /\ PagesOfTitle(title_number) # {}
        /\ LET n == Len(reader)
               start == Least(PagesOfTitle(title_number))
               after == {k \in PagesOfTitle(next_title_number) : k > start}
               end == IF after = {} THEN n ELSE Least(after)
           IN  /\ 0 <= start /\ start < end /\ end <= n
               /\ Len(pages) = end - start
               /\ pages # <<>>
               /\ \A i \in DOMAIN pages :
                      /\ pages[i].page_number = start + i
                      /\ pages[i].text = reader[start + i]
               /\ pages[1].page_number = start + 1
               /\ pages[Len(pages)].page_number = end

\* the title begins on the second page of the PDF and the next title on
\* the third: the one page extracted has number 2
C32_Witness ==
    /\ pc = "loop"
    /\ Len(reader) = 3
    /\ PagesOfTitle(title_number) = {1}
    /\ PagesOfTitle(next_title_number) = {2}
    /\ Len(pages) = 1
    /\ pages[1].page_number = 2

---------------------------------------------------------------------------
(* C33 *)

\* no two places of the list hold nodes with the same key
DistinctKeys(list, key(_)) ==
    \A i, j \in DOMAIN list : i # j => key(heap[list[i]]) # key(heap[list[j]])

\* C33: after clean_title no Chapter reachable from the document's
\* subtitles holds two Sections with the same citation, and no two of the
\* document's subtitles have the same number compared case-insensitively.
C33_NoDuplicates ==
    pc = "done" =>
        /\ \A c \in ChaptersInTree :
               LET citation(node) == node.citation
               IN  DistinctKeys(heap[c].sections, citation)
        /\ LET number_lower(node) == lower(node.number)
           IN  DistinctKeys(subtitles, number_lower)

\* the document repeated a Subtitle heading and, within its one Chapter, a
\* Section heading: one Subtitle and one Section of each pair are left
C33_Witness ==
    /\ pc = "done"
    /\ Cardinality(NodesOf("Subtitle")) = 2
    /\ Len(subtitles) = 1
    /\ Cardinality(NodesOf("Chapter")) = 1
    /\ Cardinality(ChaptersInTree) = 1
    /\ Cardinality(NodesOf("Section")) = 2
    /\ \A c \in ChaptersInTree : Len(heap[c].sections) = 1

---------------------------------------------------------------------------
(* C34 *)

\* the nodes that occupy a slot
OpenNodes ==
    {current_subtitle, current_division, current_chapter, current_section} \ {0}

\* every node is created in a slot: a node that occupies none has been
\* finalized
Finalized == Nodes \ OpenNodes

\* C34: a node that has been finalized (it occupies no slot any more) is
\* changed by no later step of the line loop, the end of the stream
\* included: title or heading, text buffer, start_page, end_page and child
\* lists are the same before and after the step.
C34_FinalizedFrozen ==
    [][pc = "loop" => \A x \in Finalized : heap'[x] = heap[x]]_vars

\* a blank line on a later page has just extended the open Section while a
\* Section finalized before it, attached to the same Chapter, ends on an
\* earlier page
C34_Witness ==
    /\ pc = "loop"
    /\ inp.raw_line.is_none
    /\ current_section # 0
    /\ heap[current_section].end_page = inp.page
    /\ \E x \in Range(heap[current_chapter].sections) :
          /\ x \in Finalized
          /\ heap[x].end_page < inp.page

---------------------------------------------------------------------------
(* C35 *)

\* the Divisions opened under Subtitle x so far: those attached to it and
\* the open one (a Division is open only under the open Subtitle)
DivisionsUnder(x) ==
    Range(heap[x].divisions)
        \cup (IF current_subtitle = x /\ current_division # 0
              THEN {current_division} ELSE {})

\* C35: references being handed out in order of creation, every Chapter in
\* a Subtitle's own chapters list was opened before every Division of that
\* Subtitle, the open one included; a Chapter opened after a Division of
\* the Subtitle is attached to a Division: every Chapter in a Division's
\* chapters list was opened after that Division, and a Chapter open while a
\* Division is open was opened after it.
C35_ChaptersBeforeDivisions ==
    /\ \A x \in NodesOf("Subtitle") :
           \A c \in Range(heap[x].chapters) : \A d \in DivisionsUnder(x) : c < d
    /\ \A d \in NodesOf("Division") : \A c \in Range(heap[d].chapters) : d < c
    /\ (current_division # 0 /\ current_chapter # 0) => current_division < current_chapter

\* the open Subtitle holds a Chapter of its own, and a Chapter is open
\* under the Division opened after it
C35_Witness ==
    /\ pc = "loop"
    /\ current_subtitle # 0
    /\ heap[current_subtitle].chapters # <<>>
    /\ current_division # 0
    /\ current_chapter # 0

---------------------------------------------------------------------------
(* C36 *)

\* C36: whenever a step changes the title of a Subtitle or of a Chapter,
\* the title was empty before the step and is not empty after it: a title
\* that is not empty, from the heading line or from a deferred-title
\* heuristic, is changed by no later line (nor by the end of the stream or
\* clean_title), and a deferred-title heuristic sets the title of a node at
\* most once.
C36_TitleSetOnce ==
    [][\A x \in NodesOf("Subtitle") \cup NodesOf("Chapter") :
          heap'[x].title # heap[x].title =>
              (heap[x].title = <<>> /\ heap'[x].title # <<>>)]_vars

\* a Chapter heading without title was followed by two lines of text that
\* are no headings: the first is the title, the second has just been read
\* and is a line of the intro, not the title
C36_Witness ==
    /\ pc = "loop"
    /\ current_chapter # 0
    /\ current_section = 0
    /\ ~inp.raw_line.is_none
    /\ NoHeadingMatch(scanned(inp.raw_line))
    /\ ~scanned(inp.raw_line).is_sections
    /\ heap[current_chapter].title # <<>>
    /\ heap[current_chapter].intro_lines = <<scanned(inp.raw_line).line>>

---------------------------------------------------------------------------
(* C37 *)

\* the node the line read by this step is attributed to: the innermost open
\* node for a blank marker and for plain text, the open Subtitle or Chapter
\* for a deferred title; 0 for a heading and for a line of the preface
AttributedTo ==
    LET branch == Branch(Cur, inp'.raw_line)
    IN  IF branch \in {"blank", "text"} THEN Innermost
        ELSE IF branch = "subtitle_title" THEN current_subtitle
        ELSE IF branch = "chapter_title" THEN current_chapter
        ELSE 0

\* C37: a step changes the end_page of a node only if it reads a line
\* attributed to that node (blank marker, plain text or deferred title): a
\* heading that opens a descendant, a line attributed to a descendant, the
\* finalize_* cascade, the end of the stream and clean_title leave the
\* end_page of every other node as it was.
C37_EndPageOwnLines ==
    [][\A x \in Nodes :
          heap'[x].end_page # heap[x].end_page => (LineStep /\ x = AttributedTo)]_vars

\* a line of text on a later page has just extended the open Section: the
\* Chapter and the Subtitle above it end on an earlier page
C37_Witness ==
    /\ pc = "loop"
    /\ ~inp.raw_line.is_none
    /\ current_section # 0
    /\ heap[current_section].body_lines # <<>>
    /\ heap[current_section].end_page = inp.page
    /\ heap[current_chapter].end_page < inp.page
    /\ current_subtitle # 0
    /\ heap[current_subtitle].end_page < inp.page

---------------------------------------------------------------------------
(* C38 *)

\* no node of the list starts before page p
StartsFrom(p, list) == \A i \in DOMAIN list : p <= heap[list[i]].start_page

\* C38: for a stream with non-decreasing page numbers, before clean_title
\* runs every node attached to a parent starts on the parent's start_page
\* or later, and the start_pages along the document's subtitles and along
\* every divisions, chapters and sections list do not decrease.
C38_StartPageOrder ==
    pc # "done" =>
        /\ NonDecreasingStartPage(subtitles)
        /\ \A x \in NodesOf("Subtitle") :
               /\ StartsFrom(heap[x].start_page, heap[x].divisions)
               /\ StartsFrom(heap[x].start_page, heap[x].chapters)
               /\ NonDecreasingStartPage(heap[x].divisions)
               /\ NonDecreasingStartPage(heap[x].chapters)
        /\ \A x \in NodesOf("Division") :
               /\ StartsFrom(heap[x].start_page, heap[x].chapters)
               /\ NonDecreasingStartPage(heap[x].chapters)
        /\ \A x \in NodesOf("Chapter") :
               /\ StartsFrom(heap[x].start_page, heap[x].sections)
               /\ NonDecreasingStartPage(heap[x].sections)

\* the stream has ended: the second Subtitle of the raw tree starts on a
\* later page than the first and holds a Division or a Chapter
C38_Witness ==
    /\ pc = "finalized"
    /\ Len(subtitles) = 2
    /\ heap[subtitles[1]].start_page < heap[subtitles[2]].start_page
    /\ heap[subtitles[2]].divisions \o heap[subtitles[2]].chapters # <<>>


===========================================================================
